---- MODULE Spec2Model ----
(***************************************************************************)
(* Flood-risk-aware routing: the per-vehicle edge cost (person3/cost.py,   *)
(* person3/car.py), the per-road risk (roadrisk.py), the route search      *)
(* (person3/router.py) and the batch simulation (person3/simulation.py).   *)
(*                                                                         *)
(* Numbers.  The code computes in floats; the model computes in fixed      *)
(* point on integer grids:                                                 *)
(*   flood depth   millimetres          (the code's metres * 1000)         *)
(*   length        metres                                                  *)
(*   speed         1/100 km/h           (0.65 * 50 km/h = 3250)            *)
(*   multiplier    1/100                (0.65 = 65)                        *)
(*   loss rate     1/10 km/h per mm     (0.1 = 1)                          *)
(*   cost, time    1/1000 s             (28.8 s = 28800)                   *)
(*   exposure      1/1000 m*m           (0.2 m * 100 m = 20000)            *)
(* Products and sums are exact on these grids; the one quotient (travel    *)
(* time) is rounded down to the grid, where the code rounds to a double.   *)
(* Risk is kept as an exact fraction num/den.                              *)
(***************************************************************************)
EXTENDS Integers, Sequences, FiniteSets, TLC

VARIABLES
    vehicle,    \* cost session: the Cars profile passed to compute_edge_weight
    edgeBase,   \* cost session: the edge's attributes other than flood_depth
    costCalls,  \* cost session: the last calls of compute_edge_weight, oldest first
    road,       \* risk session: the road record passed to compute_road_risk
    riskCalls,  \* risk session: the last calls of compute_road_risk, oldest first
    backendFile,   \* file session: the content of backend/roads_with_risk.json
    roads,         \* file session: the module-level list roadrisk.roads
    allRoadsCalls, \* file session: the last call of compute_all_roads
    G,             \* build session: the nx.Graph build_graph_from_bbox is filling
    segments,      \* build session: the segments the features processed so far held
    featuresDone,  \* build session: the number of features processed
    nearestCalls,  \* build session: the last call of nearest_node_key
    g,          \* routing session: the road graph (built by the caller, read-only)
    routeCalls, \* routing session: the last call of compute_route
    requests,   \* request session: the route requests handled so far, oldest first
    all_nodes,  \* simulation: the node population passed to simulate_traffic
    vehicles,   \* simulation: the number of trials asked for
    results,    \* simulation: the records appended so far
    trialRoutes,\* simulation: the compute_route call of each trial so far
    simState,   \* simulation: "loop", "returned", or the exception that ended the batch
    handlerRequest, \* proxy session: the request a handler of server.py is serving
    mirrorReplies,  \* proxy session: what each Overpass mirror does with a POST
    contacted,      \* proxy session: the mirrors posted to so far, oldest first
    ov,             \* proxy session: the local ov of the handler
    last_err,       \* proxy session: the local last_err of the handler
    response,       \* proxy session: the response returned, status 0 while none
    handlerPc       \* proxy session: "start", "loop", "after", "done"; "idle" elsewhere

vars == <<vehicle, edgeBase, costCalls, road, riskCalls, backendFile, roads, allRoadsCalls,
          G, segments, featuresDone, nearestCalls, g, routeCalls, requests,
          all_nodes, vehicles, results, trialRoutes, simState,
          handlerRequest, mirrorReplies, contacted, ov, last_err, response, handlerPc>>
proxyVars == <<handlerRequest, mirrorReplies, contacted, ov, last_err, response, handlerPc>>
buildVars == <<G, segments, featuresDone, nearestCalls>>
routeVars == <<g, routeCalls, requests>>
simVars == <<all_nodes, vehicles, results, trialRoutes, simState>>
costVars == <<vehicle, edgeBase, costCalls>>
fileVars == <<backendFile, roads, allRoadsCalls>>
riskVars == <<road, riskCalls, backendFile, roads, allRoadsCalls>>

\* dict.get(key, default) on a dict modelled as a function
DictGet(d, key, default) == IF key \in DOMAIN d THEN d[key] ELSE default

\* a dict with one more item
DictSet(d, key, val) == [k \in (DOMAIN d) \cup {key} |-> IF k = key THEN val ELSE d[k]]

Max(a, b) == IF a >= b THEN a ELSE b
Min(a, b) == IF a <= b THEN a ELSE b

-----------------------------------------------------------------------------
(* person3/car.py *)

suv == [name |-> "suv", base_speed_kmph |-> 50,
        road_multipliers |-> [highway |-> 200, primary |-> 100, secondary |-> 85, residential |-> 65],
        impassable_flood_depth_mm |-> 600, flood_speed_loss_per_mm |-> 1,
        flood_penalty_lambda |-> 50, color |-> "#1f77b4"]

car == [name |-> "car", base_speed_kmph |-> 55,
        road_multipliers |-> [highway |-> 180, primary |-> 90, secondary |-> 75, residential |-> 75],
        impassable_flood_depth_mm |-> 300, flood_speed_loss_per_mm |-> 2,
        flood_penalty_lambda |-> 200, color |-> "#ff7f0e"]

bike == [name |-> "bike", base_speed_kmph |-> 40,
         road_multipliers |-> [highway |-> 150, primary |-> 100, secondary |-> 90, residential |-> 80],
         impassable_flood_depth_mm |-> 100, flood_speed_loss_per_mm |-> 5,
         flood_penalty_lambda |-> 500, color |-> "#2ca02c"]

\* Cars is a plain dataclass: a caller may build any profile.  Two more, at the
\* edges of the valid range: no speed loss, and no flood penalty with a zero multiplier.
amphibious == [name |-> "amphibious", base_speed_kmph |-> 30,
               road_multipliers |-> [residential |-> 100],
               impassable_flood_depth_mm |-> 2000, flood_speed_loss_per_mm |-> 0,
               flood_penalty_lambda |-> 5, color |-> "#000000"]

offroad == [name |-> "offroad", base_speed_kmph |-> 20,
            road_multipliers |-> [highway |-> 0, residential |-> 50],
            impassable_flood_depth_mm |-> 400, flood_speed_loss_per_mm |-> 3,
            flood_penalty_lambda |-> 0, color |-> "#ffffff"]

\* str.lower(), on the type names asked for
lower(s) ==
    CASE s = "SUV" -> "suv"
      [] s = "Car" -> "car"
      [] s = "Bike" -> "bike"
      [] s = "Truck" -> "truck"
      [] OTHER -> s

\* Python's None
None == [none |-> TRUE]

\* the dict profiles of get_vehicle_profile
profiles == [suv |-> suv, car |-> car, bike |-> bike]

\* mutant: an unknown type served with the car profile
create_vehicle_anytype(id, type) ==
    LET vehicle_profile == DictGet(profiles, lower(type), car)
    IN  [exc |-> "",
         vehicle |-> [id |-> id, type |-> type, profile |-> vehicle_profile,
                      origin |-> None, destination |-> None, route |-> <<>>,
                      stats |-> [x \in {} |-> 0]]]

\* profiles.get(vehicle_type.lower()): None for a type that is no key
get_vehicle_profile(vehicle_type) == DictGet(profiles, lower(vehicle_type), None)

\* create_vehicle(id, type): the vehicle dict, or ValueError on an unknown type
create_vehicle(id, type) ==
    LET vehicle_profile == get_vehicle_profile(type)
    IN  IF vehicle_profile = None
        THEN [exc |-> "ValueError", vehicle |-> None]
        ELSE [exc |-> "",
              vehicle |-> [id |-> id, type |-> type, profile |-> vehicle_profile,
                           origin |-> None, destination |-> None, route |-> <<>>,
                           stats |-> [x \in {} |-> 0]]]

Profiles == {suv, car, bike, amphibious, offroad}

-----------------------------------------------------------------------------
(* person3/cost.py *)

\* max(0.1, ...) of compute_speed_in_flood, in 1/100 km/h
SPEED_FLOOR == 10

\* the defaults of edge_data.get(...) in compute_edge_weight
DEFAULT_FLOOD_DEPTH == 0
DEFAULT_LENGTH == 100
DEFAULT_ROAD_CLASS == "residential"
DEFAULT_MULTIPLIER == 100

\* mutant: the 0.1 km/h floor left out
compute_speed_in_flood_nofloor(base_speed, flood_depth_mm, loss_rate_per_mm) ==
    LET speed_loss == loss_rate_per_mm * flood_depth_mm * 10
    IN  Max(base_speed - speed_loss, 0)

\* mutant: the speed loss added instead of subtracted
compute_speed_in_flood_gain(base_speed, flood_depth_mm, loss_rate_per_mm) ==
    LET speed_loss == loss_rate_per_mm * flood_depth_mm * 10
        adjusted_speed == Max(base_speed + speed_loss, 0)
    IN  Max(SPEED_FLOOR, adjusted_speed)

\* speed (1/100 km/h) of a car in a flood of the given depth
compute_speed_in_flood(base_speed, flood_depth_mm, loss_rate_per_mm) ==
    LET speed_loss == loss_rate_per_mm * flood_depth_mm * 10
        adjusted_speed == Max(base_speed - speed_loss, 0)
    IN  Max(SPEED_FLOOR, adjusted_speed)

\* mutant: km/h taken for m/s, the 5/18 left out
compute_travel_time_kmph(edge_length_m, speed) ==
    IF speed = 0
    THEN [exc |-> "ZeroDivisionError", val |-> 0]
    ELSE [exc |-> "", val |-> (edge_length_m * 100 * 1000) \div speed]

\* time (1/1000 s) to travel edge_length_m at speed (1/100 km/h):
\* speed_mps = speed * 5/18, here the fraction (speed*5) / (18*100); the
\* division raises ZeroDivisionError when speed_mps is 0
compute_travel_time(edge_length_m, speed) ==
    LET mps_num == speed * 5
        mps_den == 18 * 100
    IN  IF mps_num = 0
        THEN [exc |-> "ZeroDivisionError", val |-> 0]
        ELSE [exc |-> "", val |-> (edge_length_m * mps_den * 1000) \div mps_num]

\* flooded area (1/1000 m*m) of the edge
compute_flooding_exposure(flood_depth_mm, edge_length_m) == flood_depth_mm * edge_length_m

\* mutant: an edge flooded beyond the profile's impassable depth is priced out
EdgeWeightLocals_impassable(edge_data, vehicle_profile) ==
    LET flood_depth == DictGet(edge_data, "flood_depth", DEFAULT_FLOOD_DEPTH)
        road_class == DictGet(edge_data, "road_class", DEFAULT_ROAD_CLASS)
        road_multiplier == DictGet(vehicle_profile.road_multipliers, road_class, DEFAULT_MULTIPLIER)
        edge_length_m == DictGet(edge_data, "length", DEFAULT_LENGTH)
        base_speed == vehicle_profile.base_speed_kmph * road_multiplier
        flood_speed == compute_speed_in_flood(base_speed, flood_depth,
                                              vehicle_profile.flood_speed_loss_per_mm)
        travel_time == compute_travel_time(edge_length_m, flood_speed)
        exposure == compute_flooding_exposure(flood_depth, edge_length_m)
    IN  [flood_depth |-> flood_depth,
         base_speed |-> base_speed,
         speed_loss |-> vehicle_profile.flood_speed_loss_per_mm * flood_depth * 10,
         flood_speed |-> flood_speed,
         travel_time |-> travel_time.val,
         exposure |-> exposure,
         exc |-> travel_time.exc,
         edge_weight |-> IF flood_depth > vehicle_profile.impassable_flood_depth_mm
                         THEN 1000000000
                         ELSE travel_time.val + exposure * vehicle_profile.flood_penalty_lambda]

\* the locals of compute_edge_weight; edge_weight is what it returns
EdgeWeightLocals(edge_data, vehicle_profile) ==
    LET flood_depth == DictGet(edge_data, "flood_depth", DEFAULT_FLOOD_DEPTH)
        road_class == DictGet(edge_data, "road_class", DEFAULT_ROAD_CLASS)
        road_multiplier == DictGet(vehicle_profile.road_multipliers, road_class, DEFAULT_MULTIPLIER)
        edge_length_m == DictGet(edge_data, "length", DEFAULT_LENGTH)
        base_speed == vehicle_profile.base_speed_kmph * road_multiplier
        flood_speed == compute_speed_in_flood(base_speed, flood_depth,
                                              vehicle_profile.flood_speed_loss_per_mm)
        travel_time == compute_travel_time(edge_length_m, flood_speed)
        exposure == compute_flooding_exposure(flood_depth, edge_length_m)
    IN  [flood_depth |-> flood_depth,
         base_speed |-> base_speed,
         speed_loss |-> vehicle_profile.flood_speed_loss_per_mm * flood_depth * 10,
         flood_speed |-> flood_speed,
         travel_time |-> travel_time.val,
         exposure |-> exposure,
         exc |-> travel_time.exc,
         edge_weight |-> travel_time.val + exposure * vehicle_profile.flood_penalty_lambda]

compute_edge_weight(edge_data, vehicle_profile) ==
    EdgeWeightLocals(edge_data, vehicle_profile).edge_weight

-----------------------------------------------------------------------------
(* roadrisk.py *)

\* weights, in 1/100
RAIN_WEIGHT == 55
ELEV_WEIGHT == 25
FLAT_WEIGHT == 20

\* max_rain of normalize_rain, mm/hr
MAX_RAIN == 50

\* the level thresholds of compute_road_risk, in 1/100
VERY_HIGH_ABOVE == 70
HIGH_ABOVE == 45
MEDIUM_ABOVE == 20

\* mutant: the rainfall taken as its shortfall from max_rain
normalize_rain_inverted(mm_per_hr) ==
    [num |-> Max(0, Min(MAX_RAIN, MAX_RAIN - mm_per_hr)), den |-> MAX_RAIN]

\* max(0.0, min(1.0, mm / max_rain)) as the fraction num/den
normalize_rain(mm_per_hr) ==
    [num |-> Max(0, Min(MAX_RAIN, mm_per_hr)), den |-> MAX_RAIN]

\* road.get(key) or 0.0: an absent key and a null value both read as 0
GetOrZero(rec, key) == DictGet(rec, key, 0)

\* mutant: the division not guarded; a zero length leaves the denominator 0
RoadSlope_unguarded(length, min_elev, max_elev) ==
    LET num == IF length >= 0 THEN max_elev - min_elev ELSE min_elev - max_elev
        den == IF length >= 0 THEN length ELSE 0 - length
    IN  [num |-> Max(0, Min(den, num)), den |-> den]

\* slope = clamp((max_elev - min_elev) / length, 0, 1) as a fraction;
\* 0 when length is 0 or the range is negative
RoadSlope(length, min_elev, max_elev) ==
    LET guarded == length > 0 /\ (max_elev - min_elev) >= 0
        num == IF guarded THEN max_elev - min_elev ELSE 0
        den == IF guarded THEN length ELSE 1
    IN  [num |-> Max(0, Min(den, num)), den |-> den]

\* mutant: the normalised elevation not clamped to [0, 1]
RoadNormElev_unclamped(avg_elev, min_elev, max_elev) ==
    LET ranged == max_elev - min_elev > 0
        num == IF ranged THEN avg_elev - min_elev ELSE 0
        den == IF ranged THEN max_elev - min_elev ELSE 1
    IN  [num |-> num, den |-> den]

\* norm_elev = clamp((avg - min) / (max - min), 0, 1) as a fraction; 0 on a zero range
RoadNormElev(avg_elev, min_elev, max_elev) ==
    LET ranged == max_elev - min_elev > 0
        num == IF ranged THEN avg_elev - min_elev ELSE 0
        den == IF ranged THEN max_elev - min_elev ELSE 1
    IN  [num |-> Max(0, Min(den, num)), den |-> den]

\* mutant: the plain weighted sum, the elevation and flatness terms not scaled by rain
RiskFraction_plainsum(rain_norm, slope, norm_elev) ==
    LET flat_num == slope.den - slope.num
        low_num == norm_elev.den - norm_elev.num
        den == rain_norm.den * 100 * norm_elev.den * slope.den
        num == rain_norm.num * RAIN_WEIGHT * norm_elev.den * slope.den
               + rain_norm.den * (low_num * ELEV_WEIGHT * slope.den
                                  + flat_num * FLAT_WEIGHT * norm_elev.den)
    IN  [num |-> Max(0, Min(den, num)), den |-> den]

\* risk = clamp(rain_norm * (RAIN_WEIGHT + low_elev_factor * ELEV_WEIGHT
\*                           + flatness * FLAT_WEIGHT), 0, 1) as a fraction
RiskFraction(rain_norm, slope, norm_elev) ==
    LET flat_num == slope.den - slope.num
        low_num == norm_elev.den - norm_elev.num
        den == rain_norm.den * 100 * norm_elev.den * slope.den
        num == rain_norm.num * (RAIN_WEIGHT * norm_elev.den * slope.den
                                + low_num * ELEV_WEIGHT * slope.den
                                + flat_num * FLAT_WEIGHT * norm_elev.den)
    IN  [num |-> Max(0, Min(den, num)), den |-> den]

\* risk > t/100
Above(risk, t) == risk.num * 100 > t * risk.den

\* mutant: the thresholds taken inclusive
RiskLevel_inclusive(risk) ==
    IF risk.num * 100 >= VERY_HIGH_ABOVE * risk.den THEN "very high"
    ELSE IF risk.num * 100 >= HIGH_ABOVE * risk.den THEN "high"
    ELSE IF risk.num * 100 >= MEDIUM_ABOVE * risk.den THEN "medium"
    ELSE "low"

RiskLevel(risk) ==
    IF Above(risk, VERY_HIGH_ABOVE) THEN "very high"
    ELSE IF Above(risk, HIGH_ABOVE) THEN "high"
    ELSE IF Above(risk, MEDIUM_ABOVE) THEN "medium"
    ELSE "low"

\* returns (risk, level); rain_mm and slope are kept beside them for the call
\* log, and exc names the exception a division by zero would raise
compute_road_risk(rd, rain_mm) ==
    LET rain_norm == normalize_rain(rain_mm)
        length == GetOrZero(rd, "length")
        min_elev == GetOrZero(rd, "min_elev")
        max_elev == GetOrZero(rd, "max_elev")
        avg_elev == GetOrZero(rd, "avg_elevation")
        slope == RoadSlope(length, min_elev, max_elev)
        norm_elev == RoadNormElev(avg_elev, min_elev, max_elev)
        risk == RiskFraction(rain_norm, slope, norm_elev)
    IN  [rain_mm |-> rain_mm, risk |-> risk, level |-> RiskLevel(risk), slope |-> slope,
         exc |-> IF slope.den = 0 \/ norm_elev.den = 0 THEN "ZeroDivisionError" ELSE ""]

\* x.get(key) is truthy: the key is there and its value is not 0
Truthy(r, key) == key \in DOMAIN r /\ r[key] # 0

\* int(md5(str(rid)).hexdigest()[:8], 16) % 1000, for the ids of the session
\* and for "None"
IdFrac(rid) ==
    CASE rid = "1003" -> 500
      [] rid = "7" -> 71
      [] rid = "12" -> 751
      [] OTHER -> 328

\* the body of the loop of _load_roads_from_backend for the JSON object r.  A
\* key whose value is None is left out of the dict.  Lengths and elevations
\* are whole metres: spread = max(0.5, min(20.0, L * 0.02)) is kept as
\* spread * 50 and pos = 0.1 + 0.8 * frac as pos * 10000; the quotients are
\* exact on the records of the session.
LoadRoad(r) ==
    LET avgKey == IF Truthy(r, "avg_elevation") THEN "avg_elevation"
                  ELSE IF Truthy(r, "avg_elev") THEN "avg_elev" ELSE ""
        length == IF Truthy(r, "length") THEN r.length ELSE 0
        rid == DictGet(r, "id", "None")
        hasMin == "min_elev" \in DOMAIN r
        hasMax == "max_elev" \in DOMAIN r
        synth == avgKey # "" /\ (~hasMin \/ ~hasMax)
        spread50 == Max(25, Min(1000, length))
        pos10000 == 1000 + 8 * IdFrac(rid)
        min_e == IF hasMin THEN r.min_elev ELSE r[avgKey] - (pos10000 * spread50) \div 500000
        max_e == IF hasMax THEN r.max_elev ELSE min_e + spread50 \div 50
        d0 == [id |-> rid, length |-> length]
        d1 == IF avgKey # "" THEN DictSet(d0, "avg_elevation", r[avgKey]) ELSE d0
        d2 == IF hasMin \/ synth THEN DictSet(d1, "min_elev", min_e) ELSE d1
    IN  IF hasMax \/ synth THEN DictSet(d2, "max_elev", max_e) ELSE d2

\* _load_roads_from_backend(): None when the file is missing or does not
\* parse, else the list of the loaded roads
load_roads_from_backend(file) ==
    IF file.state # "json" THEN [none |-> TRUE, out |-> <<>>]
    ELSE [none |-> FALSE, out |-> [i \in DOMAIN file.data |-> LoadRoad(file.data[i])]]

\* `loaded or fallback`: None and the empty list are both falsy
OrRoads(loaded, fallback) ==
    IF loaded.none \/ loaded.out = <<>> THEN fallback ELSE loaded.out

\* round(risk_val, 2) in 1/100: the nearest hundredth, a tie to the even one
Round2(risk) ==
    LET q == (risk.num * 100) \div risk.den
        r == risk.num * 100 - q * risk.den
    IN  IF 2 * r > risk.den THEN q + 1
        ELSE IF 2 * r < risk.den THEN q
        ELSE IF q % 2 = 0 THEN q ELSE q + 1

\* the dict compute_all_roads appends for the road r
AllRoadsRecord(r, rain_mm) ==
    LET called == compute_road_risk(r, rain_mm)
        computed == IF called.exc = "" THEN called
                    ELSE [risk |-> [num |-> 0, den |-> 1], level |-> "low"]
        d0 == [id |-> r.id, length |-> r.length, risk |-> Round2(computed.risk),
               level |-> computed.level]
    IN  IF "avg_elevation" \in DOMAIN r
        THEN DictSet(d0, "avg_elevation", r.avg_elevation) ELSE d0

\* compute_all_roads(rain_mm), the file and the module-level roads being as given
compute_all_roads(file, module_roads, rain_mm) ==
    LET current_roads == OrRoads(load_roads_from_backend(file), module_roads)
    IN  [i \in DOMAIN current_roads |-> AllRoadsRecord(current_roads[i], rain_mm)]

-----------------------------------------------------------------------------
(* The road graph: a networkx Graph or MultiGraph as the caller built it.    *)
(* g.nodes lists the node ids, each with coordinates x (lon) and y (lat);    *)
(* g.adj maps a node pair <<u, v>>, u < v, to the attribute dicts of the     *)
(* edges added between u and v, in the order added (the graph is             *)
(* undirected).                                                              *)

\* the edge attribute dicts the caller's graphs carry
DryEdge == [length |-> 50, road_class |-> "primary", flood_depth |-> 0]
FloodedEdge == [length |-> 100, road_class |-> "residential", flood_depth |-> 200]
EdgeAttrs == {DryEdge, FloodedEdge}

\* node n sits at x = 2n, y = 1
NodeX(n) == 2 * n
NodeY(n) == 1

RECURSIVE PairSeqFrom(_, _, _)
PairSeqFrom(u, v, n) ==
    IF u >= n THEN <<>>
    ELSE IF v > n THEN PairSeqFrom(u + 1, u + 2, n)
    ELSE <<<<u, v>>>> \o PairSeqFrom(u, v + 1, n)

\* the node pairs u < v of 1..n, in the order the caller adds their edges
PairSeq(n) == PairSeqFrom(1, 2, n)

\* the sequences of at most maxLen edge attribute dicts
Bundles(maxLen) == UNION {[1..m -> EdgeAttrs] : m \in 0..maxLen}

RECURSIVE BundleSeqs(_, _, _)
\* one bundle per pair, at most maxPar edges a pair and budget edges in all
BundleSeqs(npairs, budget, maxPar) ==
    IF npairs = 0 THEN {<<>>}
    ELSE UNION {{<<b>> \o rest : rest \in BundleSeqs(npairs - 1, budget - Len(b), maxPar)} :
                b \in Bundles(Min(budget, maxPar))}

MakeGraph(kind, n, bundles) ==
    [kind |-> kind,
     nodes |-> [i \in 1..n |-> i],
     adj |-> [p \in {PairSeq(n)[i] : i \in 1..Len(PairSeq(n))} |->
                 bundles[CHOOSE i \in 1..Len(PairSeq(n)) : PairSeq(n)[i] = p]]]

\* a Graph holds one edge a pair, a MultiGraph any number
GraphsOver(n, maxEdges) ==
    {MakeGraph("Graph", n, bs) : bs \in BundleSeqs(Len(PairSeq(n)), maxEdges, 1)}
    \cup {MakeGraph("MultiGraph", n, bs) : bs \in BundleSeqs(Len(PairSeq(n)), maxEdges, maxEdges)}

NodeSet(gr) == {gr.nodes[i] : i \in DOMAIN gr.nodes}

PairOf(u, v) == IF u < v THEN <<u, v>> ELSE <<v, u>>

\* u in G[v]
HasEdge(gr, u, v) == PairOf(u, v) \in DOMAIN gr.adj /\ gr.adj[PairOf(u, v)] # <<>>

\* the key of the i-th edge added between two nodes: 0, 1, 2, ...
EdgeKey(i) == ToString(i - 1)

\* G[u][v]: the edge's attribute dict in a Graph; in a MultiGraph the dict
\* key -> attribute dict of the parallel edges
EdgeData(gr, u, v) ==
    LET bundle == gr.adj[PairOf(u, v)]
    IN  IF gr.kind = "Graph" THEN bundle[1]
        ELSE [k \in {EdgeKey(i) : i \in DOMAIN bundle} |->
                 bundle[CHOOSE i \in DOMAIN bundle : EdgeKey(i) = k]]

RECURSIVE NeighborsFrom(_, _, _)
NeighborsFrom(gr, v, i) ==
    IF i > Len(gr.nodes) THEN <<>>
    ELSE IF HasEdge(gr, gr.nodes[i], v)
         THEN <<gr.nodes[i]>> \o NeighborsFrom(gr, v, i + 1)
         ELSE NeighborsFrom(gr, v, i + 1)

\* G._adj[v], in the order the neighbours were added
Neighbors(gr, v) == NeighborsFrom(gr, v, 1)

-----------------------------------------------------------------------------
(* person3/route_networkx.py.  Longitudes and latitudes are in 1/1000000     *)
(* degree, node keys in 1/100000 degree, lengths in mm, risks in 1/100 and   *)
(* weights in 1/100 mm.  The graph is [nodes, edges]: nodes lists            *)
(* [key, lon, lat] in the order added, edges maps the set of an edge's two   *)
(* keys to its attributes.                                                   *)

Abs(x) == IF x >= 0 THEN x ELSE 0 - x

\* haversine_m for two points on the equator or on one meridian, where the
\* formula comes to R times the angle between them: 111.1949 mm for
\* 1/1000000 degree
haversine_m(lon1, lat1, lon2, lat2) ==
    IF lon1 = lon2 THEN (Abs(lat2 - lat1) * 1111949) \div 10000
    ELSE (Abs(lon2 - lon1) * 1111949) \div 10000

\* risk_penalty of build_graph_from_bbox
RISK_PENALTY == 5

\* f"{x:.5f}": x rounded to 5 decimals (x >= 0)
Round5(x) == (x + 5) \div 10

\* key(lon, lat)
key(lon, lat) == <<Round5(lon), Round5(lat)>>

has_node(Gr, k) == \E i \in DOMAIN Gr.nodes : Gr.nodes[i].key = k

\* if not G.has_node(k): G.add_node(k, lon=.., lat=..)
AddNodeIfNew(Gr, k, lon, lat) ==
    IF has_node(Gr, k) THEN Gr
    ELSE [Gr EXCEPT !.nodes = Append(@, [key |-> k, lon |-> lon, lat |-> lat])]

\* weight = length * (1.0 + risk_val * risk_penalty)
SegmentWeight(length, risk_val) == length * (100 + risk_val * RISK_PENALTY)

\* mutant: a later parallel segment always replaces the edge
StoreEdge_lastwins(Gr, ka, kb, weight, length, risk_val) ==
    [Gr EXCEPT !.edges =
        [p \in (DOMAIN Gr.edges) \cup {{ka, kb}} |->
            IF p = {ka, kb} THEN [weight |-> weight, length |-> length, risk |-> risk_val]
            ELSE Gr.edges[p]]]

\* lines 78-83: the edge is added, or updated when the new weight is smaller
StoreEdge(Gr, ka, kb, weight, length, risk_val) ==
    IF {ka, kb} \in DOMAIN Gr.edges /\ ~(weight < Gr.edges[{ka, kb}].weight)
    THEN Gr
    ELSE [Gr EXCEPT !.edges =
             [p \in (DOMAIN Gr.edges) \cup {{ka, kb}} |->
                 IF p = {ka, kb} THEN [weight |-> weight, length |-> length, risk |-> risk_val]
                 ELSE Gr.edges[p]]]

\* the body of the loop over the segments of a feature: a, b are <<lon, lat>>
AddSegment(Gr, a, b, risk_val) ==
    StoreEdge(AddNodeIfNew(AddNodeIfNew(Gr, key(a[1], a[2]), a[1], a[2]),
                           key(b[1], b[2]), b[1], b[2]),
              key(a[1], a[2]), key(b[1], b[2]),
              SegmentWeight(haversine_m(a[1], a[2], b[1], b[2]), risk_val),
              haversine_m(a[1], a[2], b[1], b[2]), risk_val)

RECURSIVE AddSegments(_, _, _, _)
\* for i in range(len(coords) - 1), from segment i on
AddSegments(Gr, coords, i, risk_val) ==
    IF i >= Len(coords) THEN Gr
    ELSE AddSegments(AddSegment(Gr, coords[i], coords[i + 1], risk_val), coords, i + 1, risk_val)

\* risk_val of a feature: riskMap[rid].get('risk', 0.0) when the feature's id
\* is in riskMap, else 0.0
FeatureRisk(feat, riskMap) ==
    LET rid == DictGet(feat, "id", "")
    IN  IF rid # "" /\ rid \in DOMAIN riskMap THEN DictGet(riskMap[rid], "risk", 0) ELSE 0

\* the body of the loop over the features: a feature that is no LineString is skipped
AddFeature(Gr, feat, riskMap) ==
    IF feat.type # "LineString" THEN Gr
    ELSE AddSegments(Gr, feat.coordinates, 1, FeatureRisk(feat, riskMap))

RECURSIVE NearestScan_last(_, _, _, _, _)
\* mutant: a node as near as the best so far replaces it
NearestScan_last(Gr, lon, lat, i, best) ==
    IF i > Len(Gr.nodes) THEN best
    ELSE LET d_m == haversine_m(lon, lat, Gr.nodes[i].lon, Gr.nodes[i].lat)
         IN  NearestScan_last(Gr, lon, lat, i + 1,
                 IF best.inf \/ d_m <= best.d
                 THEN [inf |-> FALSE, node |-> Gr.nodes[i].key, d |-> d_m]
                 ELSE best)

\* nearest_node_key's loop over G.nodes(data=True) from node i on, best being
\* [none, key, d] so far
RECURSIVE NearestScan(_, _, _, _, _)
NearestScan(Gr, lon, lat, i, best) ==
    IF i > Len(Gr.nodes) THEN best
    ELSE LET d_m == haversine_m(lon, lat, Gr.nodes[i].lon, Gr.nodes[i].lat)
         IN  NearestScan(Gr, lon, lat, i + 1,
                 IF best.inf \/ d_m < best.d
                 THEN [inf |-> FALSE, node |-> Gr.nodes[i].key, d |-> d_m]
                 ELSE best)

\* nearest_node_key(G, lon, lat): (best, best_d); inf stands for (None, inf)
nearest_node_key(Gr, lon, lat) ==
    NearestScan(Gr, lon, lat, 1, [inf |-> TRUE, node |-> <<0, 0>>, d |-> 0])

-----------------------------------------------------------------------------
(* person3/router.py, with the library calls it makes                        *)

\* squared distance of node n from the point (X, Y)
Dist2(n, X, Y) == (NodeX(n) - X) * (NodeX(n) - X) + (NodeY(n) - Y) * (NodeY(n) - Y)

\* mutant: the node resolved for the origin of the last routed request is kept
\* and served for every later point
nearest_nodes_cached(gr, X, Y) ==
    LET routed == {i \in DOMAIN requests :
                      requests[i].route # <<>> /\ requests[i].route[1].exc = ""}
        last == CHOOSE i \in routed : \A j \in routed : j <= i
    IN  IF Len(gr.nodes) = 0 THEN [exc |-> "ValueError", node |-> 0]
        ELSE IF routed # {}
        THEN [exc |-> "", node |-> requests[last].route[1].locals.starting_node]
        ELSE LET best == CHOOSE i \in DOMAIN gr.nodes :
                        /\ \A j \in DOMAIN gr.nodes : Dist2(gr.nodes[i], X, Y) <= Dist2(gr.nodes[j], X, Y)
                        /\ \A j \in 1..(i - 1) : Dist2(gr.nodes[j], X, Y) > Dist2(gr.nodes[i], X, Y)
             IN  [exc |-> "", node |-> gr.nodes[best]]

\* osmnx.nearest_nodes(G, X, Y): the node nearest to the point, the first of
\* the nearest in node order; raises on a graph without nodes
nearest_nodes(gr, X, Y) ==
    IF Len(gr.nodes) = 0 THEN [exc |-> "ValueError", node |-> 0]
    ELSE LET best == CHOOSE i \in DOMAIN gr.nodes :
                        /\ \A j \in DOMAIN gr.nodes : Dist2(gr.nodes[i], X, Y) <= Dist2(gr.nodes[j], X, Y)
                        /\ \A j \in 1..(i - 1) : Dist2(gr.nodes[j], X, Y) > Dist2(gr.nodes[i], X, Y)
         IN  [exc |-> "", node |-> gr.nodes[best]]

\* isinstance(d, dict): networkx hands the weight callable G._adj[u][v], the
\* attribute dict of a Graph and the key -> attributes dict of a MultiGraph
IsDict(d) == TRUE

\* compute_route.weight_function(u, v, d)
weight_function(gr, u, v, d, vehicle_profile) ==
    LET edge_data == IF IsDict(d) THEN d ELSE EdgeData(gr, u, v)[EdgeKey(1)]
    IN  compute_edge_weight(edge_data, vehicle_profile)

\* the least (distance, counter, node) of the heap
HeapTop(fringe) ==
    CHOOSE t \in fringe : \A o \in fringe :
        t[1] < o[1] \/ (t[1] = o[1] /\ t[2] <= o[2])

RECURSIVE DijkstraRelax_sourcepath(_, _, _, _, _)
\* mutant: the path to u recorded as [v, u], v's own path dropped
DijkstraRelax_sourcepath(gr, vehicle_profile, v, nbrs, st) ==
    IF nbrs = <<>> THEN st
    ELSE LET u == Head(nbrs)
             cost == weight_function(gr, v, u, EdgeData(gr, v, u), vehicle_profile)
             vu_dist == st.dist[v] + cost
             st2 == IF u \in DOMAIN st.dist
                    THEN IF vu_dist < st.dist[u] THEN [st EXCEPT !.exc = "ValueError"] ELSE st
                    ELSE IF u \notin DOMAIN st.seen \/ vu_dist < st.seen[u]
                    THEN [st EXCEPT !.seen = (u :> vu_dist) @@ @,
                                    !.fringe = @ \cup {<<vu_dist, st.c, u>>},
                                    !.c = @ + 1,
                                    !.paths = (u :> <<st.paths[v][1], u>>) @@ @]
                    ELSE st
         IN  DijkstraRelax_sourcepath(gr, vehicle_profile, v, Tail(nbrs), st2)

RECURSIVE DijkstraRelax(_, _, _, _, _)
\* networkx _dijkstra_multisource: the loop over the neighbours u of v
DijkstraRelax(gr, vehicle_profile, v, nbrs, st) ==
    IF nbrs = <<>> THEN st
    ELSE LET u == Head(nbrs)
             cost == weight_function(gr, v, u, EdgeData(gr, v, u), vehicle_profile)
             vu_dist == st.dist[v] + cost
             st2 == IF u \in DOMAIN st.dist
                    THEN IF vu_dist < st.dist[u] THEN [st EXCEPT !.exc = "ValueError"] ELSE st
                    ELSE IF u \notin DOMAIN st.seen \/ vu_dist < st.seen[u]
                    THEN [st EXCEPT !.seen = (u :> vu_dist) @@ @,
                                    !.fringe = @ \cup {<<vu_dist, st.c, u>>},
                                    !.c = @ + 1,
                                    !.paths = (u :> Append(st.paths[v], u)) @@ @]
                    ELSE st
         IN  DijkstraRelax(gr, vehicle_profile, v, Tail(nbrs), st2)

RECURSIVE DijkstraLoop(_, _, _, _)
\* networkx _dijkstra_multisource: the loop popping the heap
DijkstraLoop(gr, vehicle_profile, target, st) ==
    IF st.fringe = {} THEN st
    ELSE LET top == HeapTop(st.fringe)
             d == top[1]
             v == top[3]
             st1 == [st EXCEPT !.fringe = @ \ {top}]
         IN  IF v \in DOMAIN st1.dist
             THEN DijkstraLoop(gr, vehicle_profile, target, st1)
             ELSE LET st2 == [st1 EXCEPT !.dist = (v :> d) @@ @]
                  IN  IF v = target THEN st2
                      ELSE DijkstraLoop(gr, vehicle_profile, target,
                               DijkstraRelax(gr, vehicle_profile, v, Neighbors(gr, v), st2))

\* what dijkstra_path makes of the finished search st: the path and the
\* distance accumulated for it, or NetworkXNoPath when the target was not reached
DijkstraOutcome(target, st) ==
    IF st.exc # "" THEN [exc |-> st.exc, path |-> <<>>, length |-> 0]
    ELSE IF target \notin DOMAIN st.dist
    THEN [exc |-> "NetworkXNoPath", path |-> <<>>, length |-> 0]
    ELSE [exc |-> "", path |-> st.paths[target], length |-> st.dist[target]]

\* mutant: no path from a node to itself
dijkstra_path_nosame(gr, source, target, vehicle_profile) ==
    IF source = target
    THEN [exc |-> "NetworkXNoPath", path |-> <<>>, length |-> 0]
    ELSE DijkstraOutcome(target,
             DijkstraLoop(gr, vehicle_profile, target,
                 [dist |-> <<>>, seen |-> (source :> 0), paths |-> (source :> <<source>>),
                  fringe |-> {<<0, 0, source>>}, c |-> 1, exc |-> ""]))

\* nx.dijkstra_path(g, source, target, weight=weight_function); the search
\* from a node to itself returns at once, with the path [target] and length 0
dijkstra_path(gr, source, target, vehicle_profile) ==
    IF source = target
    THEN [exc |-> "", path |-> <<target>>, length |-> 0]
    ELSE DijkstraOutcome(target,
             DijkstraLoop(gr, vehicle_profile, target,
                 [dist |-> <<>>, seen |-> (source :> 0), paths |-> (source :> <<source>>),
                  fringe |-> {<<0, 0, source>>}, c |-> 1, exc |-> ""]))

\* mutant: NetworkXNoPath not caught
RouteOutcome_nocatch(locals, found) ==
    IF found.exc = ""
    THEN [exc |-> "", locals |-> [locals EXCEPT !.search_cost = found.length],
          result |-> [path |-> found.path, vehicle_type |-> locals.profile.name,
                      status |-> "success"]]
    ELSE [exc |-> found.exc, locals |-> locals,
          result |-> [path |-> <<>>, vehicle_type |-> "", status |-> ""]]

\* mutant: a blocked result carrying the origin as its path
RouteOutcome_blockedpath(locals, found) ==
    IF found.exc = ""
    THEN [exc |-> "", locals |-> [locals EXCEPT !.search_cost = found.length],
          result |-> [path |-> found.path, vehicle_type |-> locals.profile.name,
                      status |-> "success"]]
    ELSE IF found.exc = "NetworkXNoPath"
    THEN [exc |-> "", locals |-> locals,
          result |-> [path |-> <<locals.starting_node>>, vehicle_type |-> locals.profile.name,
                      status |-> "blocked"]]
    ELSE [exc |-> found.exc, locals |-> locals,
          result |-> [path |-> <<>>, vehicle_type |-> "", status |-> ""]]

\* the try/except of compute_route around the search outcome found: exc names
\* the exception that leaves the call, "" when it returns; locals are the
\* call's arguments and locals
RouteOutcome(locals, found) ==
    IF found.exc = ""
    THEN [exc |-> "", locals |-> [locals EXCEPT !.search_cost = found.length],
          result |-> [path |-> found.path, vehicle_type |-> locals.profile.name,
                      status |-> "success"]]
    ELSE IF found.exc = "NetworkXNoPath"
    THEN [exc |-> "", locals |-> locals,
          result |-> [path |-> <<>>, vehicle_type |-> locals.profile.name,
                      status |-> "blocked"]]
    ELSE [exc |-> found.exc, locals |-> locals,
          result |-> [path |-> <<>>, vehicle_type |-> "", status |-> ""]]

\* compute_route once both endpoints are resolved (nearest_nodes raises on a
\* graph without nodes, and the exception leaves compute_route)
RouteBetween(gr, starting_coord, target_coord, vehicle_profile, starting, target) ==
    IF starting.exc # "" \/ target.exc # ""
    THEN [exc |-> "ValueError",
          locals |-> [starting_coord |-> starting_coord, target_coord |-> target_coord,
                      profile |-> vehicle_profile, starting_node |-> 0, target_node |-> 0,
                      search_cost |-> 0],
          result |-> [path |-> <<>>, vehicle_type |-> "", status |-> ""]]
    ELSE RouteOutcome([starting_coord |-> starting_coord, target_coord |-> target_coord,
                       profile |-> vehicle_profile,
                       starting_node |-> starting.node, target_node |-> target.node,
                       search_cost |-> 0],
                      dijkstra_path(gr, starting.node, target.node, vehicle_profile))

\* compute_route(g, starting_coord, target_coord, vehicle_profile); a coord is
\* <<lat, lon>>, and nearest_nodes takes X = lon, Y = lat
compute_route(gr, starting_coord, target_coord, vehicle_profile) ==
    RouteBetween(gr, starting_coord, target_coord, vehicle_profile,
                 nearest_nodes(gr, starting_coord[2], starting_coord[1]),
                 nearest_nodes(gr, target_coord[2], target_coord[1]))

\* mutant: the weights computed for the search written into the edges
GraphAfterRoute_weighted(gr, call) ==
    [gr EXCEPT !.adj = [p \in DOMAIN gr.adj |->
        [k \in DOMAIN gr.adj[p] |->
            DictSet(gr.adj[p][k], "weight",
                    compute_edge_weight(gr.adj[p][k], call.locals.profile))]]]

\* the graph object after compute_route returned or raised: nearest_nodes,
\* the search and weight_function read g and assign nothing in it
GraphAfterRoute(gr, call) == gr

-----------------------------------------------------------------------------
(* person3/simulation.py *)

available_types == <<"car", "suv", "bike">>

\* G[u][v][0] raises KeyError where the dict G[u][v] has no key 0
HasKey0(gr, u, v) == EdgeKey(1) \in DOMAIN EdgeData(gr, u, v)

RECURSIVE PathCostKey0(_, _, _, _)
\* the loop of simulate_traffic summing compute_edge_weight(g[u][v][0], profile)
\* over the edges of path from its j-th node on
PathCostKey0(gr, path, j, vehicle_profile) ==
    IF j >= Len(path) THEN 0
    ELSE compute_edge_weight(EdgeData(gr, path[j], path[j + 1])[EdgeKey(1)], vehicle_profile)
         + PathCostKey0(gr, path, j + 1, vehicle_profile)

\* mutant: the coordinate of the last node not appended after the loop
CoordPath_nolast(path) ==
    [j \in 1..(Len(path) - 1) |-> <<NodeY(path[j]), NodeX(path[j])>>]

\* coord_path: [y, x] of every node of the path
CoordPath(path) == [j \in DOMAIN path |-> <<NodeY(path[j]), NodeX(path[j])>>]

\* the body of the loop of simulate_traffic after route_result = call: the
\* exception that leaves it ("" when none) and the record it appends
TrialRecord(gr, i, vehicle_type, u, v, call) ==
    IF call.exc # "" THEN [exc |-> call.exc, call |-> call, record |-> [vehicle_id |-> i]]
    ELSE IF call.result.status = "success"
    THEN IF \E j \in 1..(Len(call.result.path) - 1) :
                ~HasKey0(gr, call.result.path[j], call.result.path[j + 1])
         THEN [exc |-> "KeyError", call |-> call, record |-> [vehicle_id |-> i]]
         ELSE [exc |-> "", call |-> call,
               record |-> [vehicle_id |-> i, vehicle_type |-> vehicle_type,
                           status |-> "success", start_node |-> u, end_node |-> v,
                           path_coords |-> CoordPath(call.result.path),
                           total_cost |-> [inf |-> FALSE,
                                           val |-> PathCostKey0(gr, call.result.path, 1,
                                                                call.locals.profile)]]]
    ELSE [exc |-> "", call |-> call,
          record |-> [vehicle_id |-> i, vehicle_type |-> vehicle_type,
                      status |-> "stranded", start_node |-> u,
                      start_coord |-> call.locals.starting_coord,
                      total_cost |-> [inf |-> TRUE, val |-> 0]]]

\* one pass of the loop body of simulate_traffic for trial i, the random
\* draws being vehicle_type and (u, v)
SimulateOne(gr, i, vehicle_type, u, v) ==
    TrialRecord(gr, i, vehicle_type, u, v,
                compute_route(gr, <<NodeY(u), NodeX(u)>>, <<NodeY(v), NodeX(v)>>,
                              create_vehicle(ToString(i), vehicle_type).vehicle.profile))

-----------------------------------------------------------------------------
(* backend/server.py: the handlers roads_bbox and roads_risk, which ask the  *)
(* Overpass mirrors for the ways of a bounding box.                          *)

\* mirrors, the same list in both handlers
MIRRORS ==
    <<"https://overpass-api.de/api/interpreter",
      "https://lz4.overpass-api.de/api/interpreter",
      "https://overpass.kumi.systems/api/interpreter">>

\* mutant: the loop not left after a 200 reply
MirrorStep_nobreak(reply, overpass_url, ov0, last_err0) ==
    CASE reply = "raises" -> [ov |-> ov0, last_err |-> "exception", break |-> FALSE]
      [] reply = "status 504" ->
            [ov |-> ov0, last_err |-> "status 504 from " \o overpass_url, break |-> FALSE]
      [] reply = "200 not json" -> [ov |-> ov0, last_err |-> "exception", break |-> FALSE]
      [] reply = "200 null" -> [ov |-> "None", last_err |-> last_err0, break |-> FALSE]
      [] reply = "200 list" -> [ov |-> "list", last_err |-> last_err0, break |-> FALSE]
      [] OTHER -> [ov |-> "dict", last_err |-> last_err0, break |-> FALSE]

\* one pass of the body of `for overpass_url in mirrors`, from the locals ov0
\* and last_err0: requests.post may raise; a status other than 200 is noted in
\* last_err; on a 200 r.json() is assigned to ov and the loop is left, unless
\* r.json() raises on a body that is not JSON, which the except clause catches
\* like a failed post.  ov is kept by its type: "None", "dict" or "list".
MirrorStep(reply, overpass_url, ov0, last_err0) ==
    CASE reply = "raises" -> [ov |-> ov0, last_err |-> "exception", break |-> FALSE]
      [] reply = "status 504" ->
            [ov |-> ov0, last_err |-> "status 504 from " \o overpass_url, break |-> FALSE]
      [] reply = "200 not json" -> [ov |-> ov0, last_err |-> "exception", break |-> FALSE]
      [] reply = "200 null" -> [ov |-> "None", last_err |-> last_err0, break |-> TRUE]
      [] reply = "200 list" -> [ov |-> "list", last_err |-> last_err0, break |-> TRUE]
      [] OTHER -> [ov |-> "dict", last_err |-> last_err0, break |-> TRUE]

\* roads_bbox up to its mirror loop: the response it returns early, status 0
\* when it goes on to the loop; 400 without a four-item bbox, 500 (the outer
\* except clause) when float() raises on an item
roads_bbox_prelude(req) ==
    CASE req.bbox = "missing" ->
             [status |-> 400, error |-> "bbox required as [west,south,east,north]"]
      [] req.bbox = "malformed" -> [status |-> 500, error |-> "internal server error"]
      [] OTHER -> [status |-> 0]

\* roads_risk up to its mirror loop: 404 when roadrisk cannot be imported and
\* the file is missing, the whole list when the bbox is missing or does not
\* parse, status 0 when it goes on to the loop
roads_risk_prelude(req) ==
    IF req.data = "notfound"
    THEN [status |-> 404,
          error |-> "roads_with_risk.json not found on server and roadrisk import failed"]
    ELSE IF req.bbox # "valid" THEN [status |-> 200, body |-> "roads list"]
    ELSE [status |-> 0]

\* roads_bbox after its mirror loop: 502 when ov is None; ov.get raises on a
\* body that is not an object, which the outer except clause answers with 500
roads_bbox_answer(ov0, last_err0) ==
    IF ov0 = "None"
    THEN [status |-> 502, error |-> "overpass endpoints failed", detail |-> last_err0]
    ELSE IF ov0 = "list" THEN [status |-> 500, error |-> "internal server error"]
    ELSE [status |-> 200, body |-> "FeatureCollection"]

\* roads_risk after its mirror loop, likewise
roads_risk_answer(ov0, last_err0) ==
    IF ov0 = "None"
    THEN [status |-> 502, error |-> "overpass endpoints failed", detail |-> last_err0]
    ELSE IF ov0 = "list" THEN [status |-> 500, error |-> "internal server error"]
    ELSE [status |-> 200, body |-> "roads by id"]

\* the route of the request decides the handler
HandlerPrelude(req) ==
    IF req.handler = "roads_bbox" THEN roads_bbox_prelude(req) ELSE roads_risk_prelude(req)

HandlerAnswer(req, ov0, last_err0) ==
    IF req.handler = "roads_bbox" THEN roads_bbox_answer(ov0, last_err0)
    ELSE roads_risk_answer(ov0, last_err0)

-----------------------------------------------------------------------------
(* Sessions not under study stay idle.                                      *)

IdleCost == vehicle = suv /\ edgeBase = [x \in {} |-> 0] /\ costCalls = <<>>
IdleRisk ==
    /\ road = [x \in {} |-> 0] /\ riskCalls = <<>>
    /\ backendFile = [state |-> "missing", data |-> <<>>] /\ roads = <<>>
    /\ allRoadsCalls = <<>>
IdleBuild ==
    /\ G = [nodes |-> <<>>, edges |-> <<>>] /\ segments = {}
    /\ featuresDone = 0 /\ nearestCalls = <<>>

IdleProxy ==
    /\ handlerRequest = [x \in {} |-> 0] /\ mirrorReplies = <<>> /\ contacted = <<>>
    /\ ov = "None" /\ last_err = "None" /\ response = [status |-> 0]
    /\ handlerPc = "idle"

IdleRoute ==
    /\ g = MakeGraph("Graph", 0, <<>>) /\ routeCalls = <<>> /\ requests = <<>>
    /\ IdleBuild
    /\ IdleProxy
IdleSim ==
    /\ all_nodes = <<>> /\ vehicles = 0 /\ results = <<>>
    /\ trialRoutes = <<>> /\ simState = "idle"

Last2(s) == IF Len(s) <= 2 THEN s ELSE SubSeq(s, Len(s) - 1, Len(s))

-----------------------------------------------------------------------------
(* The cost session: one profile and one edge, whose flood depth the caller  *)
(* varies from call to call.                                                 *)

\* flood depths tried: DepthStep mm apart, up to MaxDepthSteps steps
DepthStep == 100
MaxDepthSteps == 7
DepthVals == {k * DepthStep : k \in 0..MaxDepthSteps}

LengthVals == {0, 40, 100}
RoadClasses == {"highway", "primary", "secondary", "residential", "track"}

\* edge attribute dicts without flood_depth: length and road_class present or not
EdgeBases ==
    {[x \in {} |-> 0]}
    \cup {[length |-> l] : l \in LengthVals}
    \cup {[road_class |-> c] : c \in RoadClasses}
    \cup {[length |-> l, road_class |-> c] : l \in LengthVals, c \in RoadClasses}

InitCost ==
    /\ vehicle \in Profiles
    /\ edgeBase \in EdgeBases
    /\ costCalls = <<>>
    /\ IdleRisk
    /\ IdleRoute
    /\ IdleSim

\* compute_edge_weight(edge_data, vehicle), the edge carrying a flood_depth
ComputeEdgeWeight(depth) ==
    LET edge_data == DictSet(edgeBase, "flood_depth", depth)
    IN  /\ costCalls' = Last2(Append(costCalls, EdgeWeightLocals(edge_data, vehicle)))
        /\ UNCHANGED <<vehicle, edgeBase, riskVars, routeVars, simVars, buildVars, proxyVars>>

\* compute_edge_weight(edge_data, vehicle), the edge carrying no flood_depth
ComputeEdgeWeightDry ==
    /\ costCalls' = Last2(Append(costCalls, EdgeWeightLocals(edgeBase, vehicle)))
    /\ UNCHANGED <<vehicle, edgeBase, riskVars, routeVars, simVars, buildVars, proxyVars>>

NextCost ==
    \/ \E depth \in DepthVals : ComputeEdgeWeight(depth)
    \/ ComputeEdgeWeightDry

SpecCost == InitCost /\ [][NextCost]_vars

-----------------------------------------------------------------------------
(* The risk session: one road record, whose risk the caller recomputes as    *)
(* the rainfall intensity changes.                                           *)

\* rainfall intensities tried: RainStep mm/hr apart, from one step below 0
RainStep == 5
MaxRainSteps == 11
RainVals == {k * RainStep : k \in -1..MaxRainSteps}

RoadLengths == {-2, 0, 1, 4, 10}
RoadMinElevs == {0, 3}
RoadMaxElevs == {0, 3, 5}
RoadAvgElevs == {0, 2, 4, 6}

\* a dict over some of the keys, each present key with a value of its set
DictsOver(valsOf) ==
    UNION {[ks -> UNION {valsOf[k] : k \in ks}] : ks \in SUBSET DOMAIN valsOf}

RoadRecords ==
    LET valsOf == [length |-> RoadLengths, min_elev |-> RoadMinElevs,
                   max_elev |-> RoadMaxElevs, avg_elevation |-> RoadAvgElevs]
    IN  {r \in DictsOver(valsOf) : \A k \in DOMAIN r : r[k] \in valsOf[k]}

IdleFile ==
    /\ backendFile = [state |-> "missing", data |-> <<>>] /\ roads = <<>>
    /\ allRoadsCalls = <<>>

InitRisk ==
    /\ road \in RoadRecords
    /\ riskCalls = <<>>
    /\ IdleFile
    /\ IdleCost
    /\ IdleRoute
    /\ IdleSim

\* compute_road_risk(road, rain_mm)
ComputeRoadRisk(rain_mm) ==
    /\ riskCalls' = Last2(Append(riskCalls, compute_road_risk(road, rain_mm)))
    /\ UNCHANGED <<road, fileVars, costVars, routeVars, simVars, buildVars, proxyVars>>

NextRisk == \E rain_mm \in RainVals : ComputeRoadRisk(rain_mm)

SpecRisk == InitRisk /\ [][NextRisk]_vars

-----------------------------------------------------------------------------
(* The file session: roadrisk is imported, which loads the module-level      *)
(* roads from the file; then the file is updated from outside and            *)
(* compute_all_roads is called, in any order.                                *)

\* the JSON objects a file may hold: a road without elevation range, a road
\* with one, and a road with an id only
FileRoads ==
    {[id |-> "1003", length |-> 100, avg_elevation |-> 30],
     [id |-> "7", length |-> 4, avg_elevation |-> 2, min_elev |-> 0, max_elev |-> 4],
     [id |-> "12"]}

\* a file holds at most MaxFileRoads roads, no road twice
MaxFileRoads == 2
FileContents ==
    {[state |-> "missing", data |-> <<>>], [state |-> "invalid", data |-> <<>>]}
    \cup {[state |-> "json", data |-> rs] :
             rs \in {s \in UNION {[1..n -> FileRoads] : n \in 0..MaxFileRoads} :
                        \A i, j \in DOMAIN s : i # j => s[i] # s[j]}}

\* roads = _load_roads_from_backend() or [], at import
InitFile ==
    /\ backendFile \in FileContents
    /\ roads = OrRoads(load_roads_from_backend(backendFile), <<>>)
    /\ allRoadsCalls = <<>>
    /\ road = [x \in {} |-> 0] /\ riskCalls = <<>>
    /\ IdleCost
    /\ IdleRoute
    /\ IdleSim

\* the file is replaced, emptied, corrupted or removed from outside
UpdateFile(content) ==
    /\ content # backendFile
    /\ backendFile' = content
    /\ UNCHANGED <<road, riskCalls, roads, allRoadsCalls, costVars, routeVars, simVars, buildVars, proxyVars>>

\* compute_all_roads(rain_mm); the call is logged with the file it found
ComputeAllRoads(rain_mm) ==
    /\ allRoadsCalls' = <<[rain_mm |-> rain_mm, file |-> backendFile,
                           out |-> compute_all_roads(backendFile, roads, rain_mm)]>>
    /\ UNCHANGED <<road, riskCalls, backendFile, roads, costVars, routeVars, simVars, buildVars, proxyVars>>

NextFile ==
    \/ \E content \in FileContents : UpdateFile(content)
    \/ \E rain_mm \in RainVals : ComputeAllRoads(rain_mm)

SpecFile == InitFile /\ [][NextFile]_vars

-----------------------------------------------------------------------------
(* The build session: build_graph_from_bbox works through the features the   *)
(* backend returned, one feature a step; nearest_node_key is called on the   *)
(* graph as it stands.                                                       *)

\* riskMap: the risk records of the backend, by road id
RiskMap == [a |-> [id |-> "a", risk |-> 20], b |-> [id |-> "b", risk |-> 50],
            e |-> [id |-> "e", risk |-> 100], f |-> [id |-> "f"]]

\* the features of the backend's geometry, every point on the equator:
\* longitudes 0 and 4 share a node key, as do 96, 100, 102 and 200, 203
Features ==
    {[type |-> "LineString", id |-> "a", coordinates |-> <<<<0, 0>>, <<100, 0>>, <<200, 0>>>>],
     [type |-> "LineString", id |-> "b", coordinates |-> <<<<102, 0>>, <<4, 0>>>>],
     [type |-> "LineString", id |-> "c", coordinates |-> <<<<4, 0>>, <<96, 0>>>>],
     [type |-> "LineString", id |-> "e", coordinates |-> <<<<96, 0>>, <<203, 0>>>>],
     [type |-> "LineString", id |-> "f", coordinates |-> <<<<200, 0>>, <<203, 0>>>>],
     [type |-> "LineString", coordinates |-> <<<<203, 0>>, <<102, 0>>>>],
     [type |-> "Point", id |-> "a", coordinates |-> <<<<0, 0>>>>]}

\* the longitudes asked of nearest_node_key (latitude 0)
QueryLons == {0, 50, 53, 150, 260}

\* at most MaxFeatures features are processed
MaxFeatures == 3

\* the segments of a feature, as the loop of build_graph_from_bbox sees them
SegmentsOf(feat, riskMap) ==
    IF feat.type # "LineString" THEN {}
    ELSE {[pair |-> {key(feat.coordinates[i][1], feat.coordinates[i][2]),
                     key(feat.coordinates[i + 1][1], feat.coordinates[i + 1][2])},
           length |-> haversine_m(feat.coordinates[i][1], feat.coordinates[i][2],
                                  feat.coordinates[i + 1][1], feat.coordinates[i + 1][2]),
           risk |-> FeatureRisk(feat, riskMap),
           weight |-> SegmentWeight(
                          haversine_m(feat.coordinates[i][1], feat.coordinates[i][2],
                                      feat.coordinates[i + 1][1], feat.coordinates[i + 1][2]),
                          FeatureRisk(feat, riskMap))] :
             i \in 1..(Len(feat.coordinates) - 1)}

InitBuild ==
    /\ IdleBuild
    /\ IdleProxy
    /\ g = MakeGraph("Graph", 0, <<>>) /\ routeCalls = <<>> /\ requests = <<>>
    /\ IdleCost
    /\ IdleRisk
    /\ IdleSim

ProcessFeature(feat) ==
    /\ featuresDone < MaxFeatures
    /\ G' = AddFeature(G, feat, RiskMap)
    /\ segments' = segments \cup SegmentsOf(feat, RiskMap)
    /\ featuresDone' = featuresDone + 1
    /\ UNCHANGED <<nearestCalls, costVars, riskVars, routeVars, simVars, proxyVars>>

\* nearest_node_key(G, lon, 0); the call is logged with the nodes it scanned
NearestNodeKey(lon) ==
    /\ nearestCalls' = <<[lon |-> lon, lat |-> 0, nodes |-> G.nodes,
                          best |-> nearest_node_key(G, lon, 0)]>>
    /\ UNCHANGED <<G, segments, featuresDone, costVars, riskVars, routeVars, simVars, proxyVars>>

NextBuild ==
    \/ \E feat \in Features : ProcessFeature(feat)
    \/ \E lon \in QueryLons : NearestNodeKey(lon)

SpecBuild == InitBuild /\ [][NextBuild]_vars

-----------------------------------------------------------------------------
(* The proxy session: one request served by roads_bbox or roads_risk, each   *)
(* mirror answering every POST the way mirrorReplies says.                   *)

MirrorReplyKinds ==
    {"raises", "status 504", "200 not json", "200 null", "200 list", "200 dict"}

HandlerRequests ==
    {[handler |-> "roads_bbox", bbox |-> b, data |-> "computed"] :
        b \in {"valid", "missing", "malformed"}}
    \cup {[handler |-> "roads_risk", bbox |-> b, data |-> d] :
             b \in {"valid", "missing", "malformed"}, d \in {"computed", "file", "notfound"}}

InitProxy ==
    /\ handlerRequest \in HandlerRequests
    /\ mirrorReplies \in [DOMAIN MIRRORS -> MirrorReplyKinds]
    /\ contacted = <<>>
    /\ ov = "None" /\ last_err = "None" /\ response = [status |-> 0]
    /\ handlerPc = "start"
    /\ IdleCost
    /\ IdleRisk
    /\ IdleSim
    /\ g = MakeGraph("Graph", 0, <<>>) /\ routeCalls = <<>> /\ requests = <<>>
    /\ G = [nodes |-> <<>>, edges |-> <<>>] /\ segments = {}
    /\ featuresDone = 0 /\ nearestCalls = <<>>

\* the handler runs up to its mirror loop or returns early
HandlerEnters ==
    /\ handlerPc = "start"
    /\ response' = HandlerPrelude(handlerRequest)
    /\ handlerPc' = IF HandlerPrelude(handlerRequest).status = 0 THEN "loop" ELSE "done"
    /\ UNCHANGED <<handlerRequest, mirrorReplies, contacted, ov, last_err,
                   costVars, riskVars, routeVars, simVars, buildVars>>

\* one pass of the mirror loop
PostToMirror ==
    /\ handlerPc = "loop"
    /\ LET m == Len(contacted) + 1
           step == MirrorStep(mirrorReplies[m], MIRRORS[m], ov, last_err)
       IN  /\ contacted' = Append(contacted, MIRRORS[m])
           /\ ov' = step.ov
           /\ last_err' = step.last_err
           /\ handlerPc' = IF step.break \/ m = Len(MIRRORS) THEN "after" ELSE "loop"
    /\ UNCHANGED <<handlerRequest, mirrorReplies, response,
                   costVars, riskVars, routeVars, simVars, buildVars>>

\* the handler answers after the loop
HandlerAnswers ==
    /\ handlerPc = "after"
    /\ response' = HandlerAnswer(handlerRequest, ov, last_err)
    /\ handlerPc' = "done"
    /\ UNCHANGED <<handlerRequest, mirrorReplies, contacted, ov, last_err,
                   costVars, riskVars, routeVars, simVars, buildVars>>

NextProxy ==
    \/ HandlerEnters
    \/ PostToMirror
    \/ HandlerAnswers

SpecProxy == InitProxy /\ [][NextProxy]_vars

-----------------------------------------------------------------------------
(* The routing session: one graph, on which the caller computes a route.     *)
(* compute_route keeps nothing from one call to the next, so a session is    *)
(* one call.                                                                 *)

\* graphs of NumNodes nodes and at most MaxEdges edges, and the graph without nodes
NumNodes == 3
MaxEdges == 3
Graphs == GraphsOver(NumNodes, MaxEdges) \cup {MakeGraph("Graph", 0, <<>>)}

\* the vehicle types of get_vehicle_profile
RouteProfiles == {suv, car, bike}

\* the points asked for, <<lat, lon>>: each node's own position, and a point
\* midway between nodes 1 and 2
QueryPoints == {<<NodeY(n), NodeX(n)>> : n \in 1..NumNodes} \cup {<<NodeY(1), NodeX(1) + 1>>}

Init ==
    /\ g \in Graphs
    /\ routeCalls = <<>>
    /\ requests = <<>>
    /\ IdleBuild
    /\ IdleProxy
    /\ IdleCost
    /\ IdleRisk
    /\ IdleSim

RouteReturns(call) ==
    /\ routeCalls' = <<call>>
    /\ g' = GraphAfterRoute(g, call)

ComputeRoute(starting_coord, target_coord, vehicle_profile) ==
    /\ routeCalls = <<>>
    /\ RouteReturns(compute_route(g, starting_coord, target_coord, vehicle_profile))
    /\ UNCHANGED <<requests, costVars, riskVars, simVars, buildVars, proxyVars>>

Next ==
    \E starting_coord \in QueryPoints, target_coord \in QueryPoints, vehicle_profile \in RouteProfiles :
        ComputeRoute(starting_coord, target_coord, vehicle_profile)

Spec == Init /\ [][Next]_vars

-----------------------------------------------------------------------------
(* The simulation: simulate_traffic(g, all_nodes, vehicles) on one graph,    *)
(* one trial of its loop a step.                                             *)

\* the node population: list(g.nodes) of the graphs simulated
SimPopulation == <<1, 2, 3>>

\* the graphs simulated hold at most SimMaxEdges edges; at most MaxVehicles trials
SimMaxEdges == 2
MaxVehicles == 2
SimGraphs == GraphsOver(Len(SimPopulation), SimMaxEdges)

InitSim ==
    /\ g \in SimGraphs
    /\ routeCalls = <<>>
    /\ requests = <<>>
    /\ IdleBuild
    /\ IdleProxy
    /\ all_nodes = SimPopulation
    /\ vehicles \in 0..MaxVehicles
    /\ results = <<>>
    /\ trialRoutes = <<>>
    /\ simState = "loop"
    /\ IdleCost
    /\ IdleRisk

\* mutant: the record put in front of the earlier ones
TrialEnds_prepend(one) ==
    /\ g' = GraphAfterRoute(g, one.call)
    /\ trialRoutes' = Append(trialRoutes, one.call)
    /\ results' = IF one.exc = "" THEN <<one.record>> \o results ELSE results
    /\ simState' = IF one.exc = "" THEN simState ELSE one.exc

\* a trial appends its record, or its exception ends the batch; the trial
\* reads g.nodes and g[u][v][0] and leaves the graph as compute_route left it
TrialEnds(one) ==
    /\ g' = GraphAfterRoute(g, one.call)
    /\ trialRoutes' = Append(trialRoutes, one.call)
    /\ results' = IF one.exc = "" THEN Append(results, one.record) ELSE results
    /\ simState' = IF one.exc = "" THEN simState ELSE one.exc

\* the loop body for i = len(results): random.choice(available_types) and
\* random.sample(all_nodes, 2), two distinct positions of the population
SimulateTrial(vehicle_type, pu, pv) ==
    /\ simState = "loop"
    /\ Len(results) < vehicles
    /\ pu # pv
    /\ TrialEnds(SimulateOne(g, Len(results), vehicle_type, all_nodes[pu], all_nodes[pv]))
    /\ UNCHANGED <<routeCalls, requests, all_nodes, vehicles, costVars, riskVars, buildVars, proxyVars>>

\* return results
SimulateReturn ==
    /\ simState = "loop"
    /\ Len(results) = vehicles
    /\ simState' = "returned"
    /\ UNCHANGED <<routeVars, all_nodes, vehicles, results, trialRoutes, costVars, riskVars, buildVars, proxyVars>>

NextSim ==
    \/ \E t \in DOMAIN available_types, pu \in DOMAIN all_nodes, pv \in DOMAIN all_nodes :
           SimulateTrial(available_types[t], pu, pv)
    \/ SimulateReturn

SpecSim == InitSim /\ [][NextSim]_vars

-----------------------------------------------------------------------------
(* The batch session: simulate_traffic called with a node population of the  *)
(* caller's choosing, which random.sample draws from by position.            *)

\* the populations passed: none, a single node, and a list naming a node twice
Populations == {<<>>, <<1>>, <<1, 1, 2>>}

InitBatch ==
    /\ g \in SimGraphs
    /\ routeCalls = <<>>
    /\ requests = <<>>
    /\ IdleBuild
    /\ IdleProxy
    /\ all_nodes \in Populations
    /\ vehicles \in 0..MaxVehicles
    /\ results = <<>>
    /\ trialRoutes = <<>>
    /\ simState = "loop"
    /\ IdleCost
    /\ IdleRisk

\* random.sample(all_nodes, 2) raises ValueError on a population of fewer
\* than 2 entries, and the exception leaves simulate_traffic
SampleRaises ==
    /\ simState = "loop"
    /\ Len(results) < vehicles
    /\ Len(all_nodes) < 2
    /\ simState' = "ValueError"
    /\ UNCHANGED <<routeVars, all_nodes, vehicles, results, trialRoutes, costVars, riskVars, buildVars, proxyVars>>

NextBatch ==
    \/ NextSim
    \/ SampleRaises

SpecBatch == InitBatch /\ [][NextBatch]_vars

-----------------------------------------------------------------------------
(* The request session: a caller that asks for routes by vehicle type on one *)
(* graph, each request handled as simulate_traffic handles a trial:          *)
(* create_vehicle(id, type), then compute_route with the vehicle's profile.  *)

\* the types asked for: a key of profiles, one in capitals, one unknown
RequestTypes == {"car", "SUV", "truck"}

\* the points asked for: the positions of the first and of the last node
RequestPoints == {<<NodeY(1), NodeX(1)>>,
                  <<NodeY(Len(SimPopulation)), NodeX(Len(SimPopulation))>>}

\* graphs of at most RequestMaxEdges edges; at most MaxRequests requests
RequestMaxEdges == 2
MaxRequests == 3
RequestGraphs ==
    GraphsOver(Len(SimPopulation), RequestMaxEdges) \cup {MakeGraph("Graph", 0, <<>>)}

\* what a request comes to once create_vehicle returned or raised (made):
\* route holds the compute_route call, if one was made
RequestOutcome(gr, type, starting_coord, target_coord, made) ==
    [type |-> type, exc |-> made.exc, vehicle |-> made.vehicle,
     route |-> IF made.exc = ""
               THEN <<compute_route(gr, starting_coord, target_coord, made.vehicle.profile)>>
               ELSE <<>>]

InitRequest ==
    /\ g \in RequestGraphs
    /\ routeCalls = <<>>
    /\ requests = <<>>
    /\ IdleBuild
    /\ IdleProxy
    /\ IdleCost
    /\ IdleRisk
    /\ IdleSim

RequestEnds(req) ==
    /\ requests' = Append(requests, req)
    /\ g' = IF req.route = <<>> THEN g ELSE GraphAfterRoute(g, req.route[1])

RouteRequest(type, starting_coord, target_coord) ==
    /\ Len(requests) < MaxRequests
    /\ RequestEnds(RequestOutcome(g, type, starting_coord, target_coord,
                                  create_vehicle(ToString(Len(requests)), type)))
    /\ UNCHANGED <<routeCalls, costVars, riskVars, simVars, buildVars, proxyVars>>

NextRequest ==
    \E type \in RequestTypes, starting_coord \in RequestPoints, target_coord \in RequestPoints :
        RouteRequest(type, starting_coord, target_coord)

SpecRequest == InitRequest /\ [][NextRequest]_vars

-----------------------------------------------------------------------------
(* Claims about routes, under Spec (C1, C3) and SpecSim (C2, C4).            *)

\* the graph holds an edge between u and v
Joined(gr, u, v) ==
    \E p \in DOMAIN gr.adj : p \in {<<u, v>>, <<v, u>>} /\ Len(gr.adj[p]) >= 1

\* the node sequences without repetition along edges of the graph, from s to t
SimplePaths(gr, s, t) ==
    {p \in UNION {[1..k -> NodeSet(gr)] : k \in 2..Len(gr.nodes)} :
        /\ p[1] = s /\ p[Len(p)] = t
        /\ \A i, j \in DOMAIN p : i # j => p[i] # p[j]
        /\ \A j \in 1..(Len(p) - 1) : Joined(gr, p[j], p[j + 1])}

\* the cheapest of the parallel edges between u and v, by compute_edge_weight
\* of the edge's own attributes
CheapestEdge(gr, u, v, vehicle_profile) ==
    LET bundle == gr.adj[PairOf(u, v)]
    IN  CHOOSE w \in {compute_edge_weight(bundle[i], vehicle_profile) : i \in DOMAIN bundle} :
            \A i \in DOMAIN bundle : w <= compute_edge_weight(bundle[i], vehicle_profile)

RECURSIVE PathWeight(_, _, _, _)
\* the sum of compute_edge_weight(edge attributes, profile) along a path
\* from its j-th node on
PathWeight(gr, path, j, vehicle_profile) ==
    IF j >= Len(path) THEN 0
    ELSE CheapestEdge(gr, path[j], path[j + 1], vehicle_profile)
         + PathWeight(gr, path, j + 1, vehicle_profile)

\* C1: for every successful compute_route result, no other path between the
\* resolved origin and destination has a smaller sum of
\* compute_edge_weight(edge attributes, profile) than the returned path.
C1_ReturnedPathIsCheapest ==
    \A i \in DOMAIN routeCalls :
        LET c == routeCalls[i]
        IN  (c.exc = "" /\ c.result.status = "success") =>
                \A p \in SimplePaths(g, c.locals.starting_node, c.locals.target_node) :
                    PathWeight(g, c.result.path, 1, c.locals.profile)
                        <= PathWeight(g, p, 1, c.locals.profile)

\* C3: for every successful compute_route result, every consecutive pair of
\* nodes of the returned path is joined by an edge of the graph.
C3_PathAlongEdges ==
    \A i \in DOMAIN routeCalls :
        LET c == routeCalls[i]
        IN  (c.exc = "" /\ c.result.status = "success") =>
                /\ Len(c.result.path) >= 1
                /\ c.result.path[1] = c.locals.starting_node
                /\ c.result.path[Len(c.result.path)] = c.locals.target_node
                /\ \A j \in 1..(Len(c.result.path) - 1) :
                       Joined(g, c.result.path[j], c.result.path[j + 1])

\* a successful route over two edges where no direct edge exists
C3_Witness ==
    /\ Len(routeCalls) = 1
    /\ routeCalls[1].result.status = "success"
    /\ Len(routeCalls[1].result.path) = 3
    /\ ~Joined(g, routeCalls[1].locals.starting_node, routeCalls[1].locals.target_node)

\* C2: for every success record of simulate_traffic, total_cost is the sum of
\* compute_edge_weight over the edges of the returned path, and equals the cost
\* the search accumulated for that path.
C2_TotalCostIsSearchCost ==
    \A i \in DOMAIN results :
        results[i].status = "success" =>
            /\ ~results[i].total_cost.inf
            /\ results[i].total_cost.val
                   = PathWeight(g, trialRoutes[i].result.path, 1, trialRoutes[i].locals.profile)
            /\ results[i].total_cost.val = trialRoutes[i].locals.search_cost

RECURSIVE ReachableFrom(_, _)
\* the nodes connected to a node of S
ReachableFrom(gr, S) ==
    LET T == S \cup {u \in NodeSet(gr) : \E v \in S : Joined(gr, u, v)}
    IN  IF T = S THEN S ELSE ReachableFrom(gr, T)

\* trial i asked for a destination not reachable from its origin
Unreachable(i) ==
    trialRoutes[i].locals.target_node
        \notin ReachableFrom(g, {trialRoutes[i].locals.starting_node})

\* C4 as claimed: when the destination is not reachable, compute_route returns
\* status 'blocked' with an empty path, and the outcome recorded for the
\* request has status blocked and total_cost +infinity.
C4_UnreachableRecordedBlocked ==
    \A i \in DOMAIN trialRoutes :
        Unreachable(i) =>
            /\ trialRoutes[i].exc = ""
            /\ trialRoutes[i].result.status = "blocked"
            /\ trialRoutes[i].result.path = <<>>
            /\ i \in DOMAIN results
            /\ results[i].status = "blocked"
            /\ results[i].total_cost.inf

\* C4 as amended: when the destination is not reachable, compute_route returns
\* (does not raise) status 'blocked' with an empty path, and the record
\* simulate_traffic appends for the trial has status 'stranded' and total_cost
\* +infinity.
C4_UnreachableRecordedStranded ==
    \A i \in DOMAIN trialRoutes :
        Unreachable(i) =>
            /\ trialRoutes[i].exc = ""
            /\ trialRoutes[i].result.status = "blocked"
            /\ trialRoutes[i].result.path = <<>>
            /\ i \in DOMAIN results
            /\ results[i].vehicle_id = i - 1
            /\ results[i].status = "stranded"
            /\ results[i].total_cost.inf

\* a trial between two components of a graph that has edges
C4_Witness ==
    /\ Len(results) >= 1
    /\ \E p \in DOMAIN g.adj : Len(g.adj[p]) >= 1
    /\ Unreachable(Len(results))
    /\ results[Len(results)].status = "stranded"

\* C11: when the origin point and the destination point resolve to the same
\* node, compute_route returns status 'success' with the path of exactly that
\* node, and the cost of the route is 0: the length the search found, and the
\* sum simulate_traffic takes over the edges of the path.
C11_SameNodeRoute ==
    \A i \in DOMAIN routeCalls :
        LET c == routeCalls[i]
        IN  (c.exc = "" /\ c.locals.starting_node = c.locals.target_node) =>
                /\ c.result.status = "success"
                /\ c.result.path = <<c.locals.starting_node>>
                /\ c.locals.search_cost = 0
                /\ PathCostKey0(g, c.result.path, 1, c.locals.profile) = 0

\* two different points that resolve to one node, on a graph with edges
C11_Witness ==
    /\ Len(routeCalls) = 1
    /\ routeCalls[1].exc = ""
    /\ routeCalls[1].locals.starting_coord # routeCalls[1].locals.target_coord
    /\ routeCalls[1].locals.starting_node = routeCalls[1].locals.target_node
    /\ \E p \in DOMAIN g.adj : Len(g.adj[p]) >= 1
    /\ routeCalls[1].result.status = "success"

\* C12 as claimed: every result with status 'success' has a path of at least
\* 2 nodes, and every result with status 'blocked' has an empty path.
C12_SuccessAtLeastTwoNodes ==
    \A i \in DOMAIN routeCalls :
        LET c == routeCalls[i]
        IN  c.exc = "" =>
                /\ c.result.status = "success" => Len(c.result.path) >= 2
                /\ c.result.status = "blocked" => c.result.path = <<>>

\* C12 as amended: every result with status 'success' has a path of at least
\* 1 node, and of at least 2 nodes when the origin and the destination resolve
\* to different nodes; every result with status 'blocked' has an empty path.
C12_SuccessAtLeastOneNode ==
    \A i \in DOMAIN routeCalls :
        LET c == routeCalls[i]
        IN  c.exc = "" =>
                /\ c.result.status \in {"success", "blocked"}
                /\ c.result.status = "success" =>
                       /\ Len(c.result.path) >= 1
                       /\ c.locals.starting_node # c.locals.target_node =>
                              Len(c.result.path) >= 2
                /\ c.result.status = "blocked" => c.result.path = <<>>

\* a successful route of one node only
C12_Witness ==
    /\ Len(routeCalls) = 1
    /\ routeCalls[1].exc = ""
    /\ routeCalls[1].result.status = "success"
    /\ Len(routeCalls[1].result.path) = 1

\* C13: compute_route on a graph with zero nodes returns a result with status
\* 'blocked'; it does not raise.
C13_EmptyGraphBlocked ==
    \A i \in DOMAIN routeCalls :
        Len(g.nodes) = 0 =>
            /\ routeCalls[i].exc = ""
            /\ routeCalls[i].result.status = "blocked"

C29_PathCoordsSpanRoute ==
    \A i \in DOMAIN results :
        results[i].status = "success" =>
            LET coords == results[i].path_coords
            IN  /\ Len(coords) = Len(trialRoutes[i].result.path)
                /\ Len(coords) >= 1
                /\ coords[1] = <<NodeY(results[i].start_node), NodeX(results[i].start_node)>>
                /\ coords[Len(coords)]
                       = <<NodeY(results[i].end_node), NodeX(results[i].end_node)>>

\* a success record whose route passes through a third node
C29_Witness ==
    \E i \in DOMAIN results :
        /\ results[i].status = "success"
        /\ Len(results[i].path_coords) = 3
        /\ results[i].start_node # results[i].end_node

\* C18: compute_route and simulate_traffic leave the road graph unchanged:
\* no step of a session changes the node set, the edge set or an edge attribute.
C18_GraphUnchanged == [][g' = g]_vars

\* two trials done on a graph with edges, one routed along an edge and one stranded
C18_Witness ==
    /\ Len(results) = 2
    /\ results[1].status = "success"
    /\ Len(trialRoutes[1].result.path) >= 2
    /\ results[2].status = "stranded"

\* C24: when the graph holds several parallel edges between u and v, the cost
\* with which the search traverses u-v for a profile is the least
\* compute_edge_weight over those parallel edges.
C24_ParallelEdgesAtMinimum ==
    \A i \in DOMAIN routeCalls :
        LET c == routeCalls[i]
        IN  (/\ c.exc = "" /\ c.result.status = "success"
             /\ Len(c.result.path) = 2
             /\ Len(g.adj[PairOf(c.result.path[1], c.result.path[2])]) >= 2) =>
                c.locals.search_cost
                    = CheapestEdge(g, c.result.path[1], c.result.path[2], c.locals.profile)

-----------------------------------------------------------------------------
(* Claims about batches, under SpecBatch.                                    *)

\* C17: in every trial of simulate_traffic the origin node and the destination
\* node are two distinct nodes, for every node population passed.
C17_EndpointsDistinct ==
    \A i \in DOMAIN trialRoutes :
        /\ trialRoutes[i].locals.starting_node # trialRoutes[i].locals.target_node
        /\ (i \in DOMAIN results /\ results[i].status = "success") =>
               results[i].start_node # results[i].end_node

\* C19: every call of simulate_traffic terminates by returning its records:
\* no trial ends the batch with an uncaught error.
C19_BatchNeverRaises == simState \in {"loop", "returned"}

-----------------------------------------------------------------------------
(* Claims about requests, under SpecRequest.                                 *)

\* requests i and j made compute_route calls with the same graph, points and profile
SameRouteArgs(i, j) ==
    /\ requests[i].route # <<>> /\ requests[j].route # <<>>
    /\ requests[i].route[1].locals.starting_coord = requests[j].route[1].locals.starting_coord
    /\ requests[i].route[1].locals.target_coord = requests[j].route[1].locals.target_coord
    /\ requests[i].route[1].locals.profile = requests[j].route[1].locals.profile

VehicleTypes == {"suv", "car", "bike"}

\* the request was rejected by create_vehicle: ValueError, no vehicle, and no
\* route computed, so no 'success' or 'blocked' result
Rejected(req) == req.exc = "ValueError" /\ req.vehicle = None /\ req.route = <<>>

\* C15 as claimed: a vehicle type that is not one of suv/car/bike is rejected:
\* create_vehicle raises the unknown-type error and produces no vehicle, and
\* no result is produced for the type.
C15_OtherTypeRejected ==
    \A i \in DOMAIN requests :
        requests[i].type \notin VehicleTypes => Rejected(requests[i])

\* C15 as amended: a vehicle type whose lower-case form is not one of
\* suv/car/bike is rejected: create_vehicle raises the unknown-type error and
\* produces no vehicle, and no result is produced for the type; every result
\* produced names one of suv/car/bike.
C15_UnknownTypeRejected ==
    \A i \in DOMAIN requests :
        /\ lower(requests[i].type) \notin VehicleTypes => Rejected(requests[i])
        /\ \A k \in DOMAIN requests[i].route :
               requests[i].route[k].exc = "" =>
                   requests[i].route[k].result.vehicle_type \in VehicleTypes

\* an unknown type rejected after a request of a known type was routed
C15_Witness ==
    /\ Len(requests) >= 2
    /\ requests[1].route # <<>>
    /\ requests[1].route[1].result.status = "success"
    /\ requests[2].type = "truck"
    /\ Rejected(requests[2])

-----------------------------------------------------------------------------
(* Claims about the risk model, under SpecRisk.                              *)

\* C5: for every road record and every rain_mm >= 0 the risk lies in [0, 1],
\* and at rain_mm = 0 the risk is exactly 0 and the level is 'low'.
C5_RiskBounds ==
    \A i \in DOMAIN riskCalls :
        LET c == riskCalls[i]
        IN  c.rain_mm >= 0 =>
                /\ 0 <= c.risk.num /\ c.risk.num <= c.risk.den /\ c.risk.den > 0
                /\ c.rain_mm = 0 => (c.risk.num = 0 /\ c.level = "low")

\* a dry call on a low, flat road with elevation data, and a call at the top of the range
C5_Witness ==
    /\ Len(riskCalls) = 2
    /\ road = [length |-> 10, min_elev |-> 0, max_elev |-> 3, avg_elevation |-> 0]
    /\ riskCalls[1].rain_mm = 0 /\ riskCalls[1].risk.num = 0
    /\ riskCalls[2].rain_mm > MAX_RAIN /\ riskCalls[2].risk.num > 0

\* C6: with the road held fixed, the risk is non-decreasing in rain_mm.
C6_RiskMonotoneInRain ==
    \A i, j \in DOMAIN riskCalls :
        riskCalls[i].rain_mm <= riskCalls[j].rain_mm =>
            /\ riskCalls[i].risk.den = riskCalls[j].risk.den
            /\ riskCalls[i].risk.num <= riskCalls[j].risk.num

\* two calls on the same road, the second with less rain and a strictly lower risk
C6_Witness ==
    /\ Len(riskCalls) = 2
    /\ riskCalls[2].rain_mm < riskCalls[1].rain_mm
    /\ riskCalls[2].risk.num < riskCalls[1].risk.num
    /\ riskCalls[2].risk.num > 0

\* C7: the level is decided by the risk alone, with strict thresholds: very high
\* iff risk > 0.70, high iff 0.45 < risk <= 0.70, medium iff 0.20 < risk <= 0.45,
\* low iff risk <= 0.20.
C7_LevelThresholds ==
    \A i \in DOMAIN riskCalls :
        LET c == riskCalls[i]
            n == c.risk.num * 100
            d == c.risk.den
        IN  /\ c.level \in {"low", "medium", "high", "very high"}
            /\ c.level = "very high" <=> n > 70 * d
            /\ c.level = "high" <=> (n > 45 * d /\ n <= 70 * d)
            /\ c.level = "medium" <=> (n > 20 * d /\ n <= 45 * d)
            /\ c.level = "low" <=> n <= 20 * d

\* risks exactly on the boundaries 0.20 and 0.70 in one session
C7_Witness ==
    /\ Len(riskCalls) = 2
    /\ riskCalls[1].risk.num * 100 = 20 * riskCalls[1].risk.den
    /\ riskCalls[1].level = "low"
    /\ riskCalls[2].risk.num * 100 = 70 * riskCalls[2].risk.den
    /\ riskCalls[2].level = "high"

\* the road with every missing value put to 0
Filled(rd) ==
    [k \in {"length", "min_elev", "max_elev", "avg_elevation"} |-> GetOrZero(rd, k)]

\* C21: compute_road_risk is total: for every road whose length, min_elev,
\* max_elev and avg_elevation are finite numbers or missing, and every finite
\* rain_mm, it returns a (risk, level) pair without raising; missing values
\* count as 0, a length of 0 gives slope 0, and max_elev < min_elev gives
\* slope 0, not a negative slope.
C21_RiskTotal ==
    \A i \in DOMAIN riskCalls :
        LET c == riskCalls[i]
        IN  /\ c.exc = ""
            /\ c.risk.den > 0 /\ c.slope.den > 0
            /\ c.level \in {"low", "medium", "high", "very high"}
            /\ c = compute_road_risk(Filled(road), c.rain_mm)
            /\ GetOrZero(road, "length") = 0 => c.slope.num = 0
            /\ GetOrZero(road, "max_elev") < GetOrZero(road, "min_elev") => c.slope.num = 0
            /\ c.slope.num >= 0

\* a call on a road without length whose range is inverted
C21_Witness ==
    /\ road = [min_elev |-> 3, max_elev |-> 0]
    /\ Len(riskCalls) >= 1
    /\ riskCalls[1].rain_mm = MAX_RAIN
    /\ riskCalls[1].risk.num > 0

\* risk a <= risk b; every risk denominator is a multiple of MAX_RAIN * 100
RiskLeq(a, b) ==
    a.num * (b.den \div (MAX_RAIN * 100)) <= b.num * (a.den \div (MAX_RAIN * 100))

\* the elevation range of the road is missing or zero
NoElevRange(rd) ==
    \/ "min_elev" \notin DOMAIN rd /\ "max_elev" \notin DOMAIN rd
    \/ GetOrZero(rd, "max_elev") = GetOrZero(rd, "min_elev")

\* the roads of the same length with a known non-zero elevation range
RangedRoadsLike(rd) ==
    {r \in RoadRecords :
        /\ GetOrZero(r, "length") = GetOrZero(rd, "length")
        /\ {"min_elev", "max_elev", "avg_elevation"} \subseteq DOMAIN r
        /\ r.max_elev > r.min_elev}

\* C22: for a road whose elevation range is missing or zero the elevation
\* data contributes nothing to the risk: under any rain_mm its risk is no
\* higher than that of a road of the same length with a known non-zero range.
C22_NoRangeNoHigher ==
    \A i \in DOMAIN riskCalls :
        NoElevRange(road) =>
            \A r \in RangedRoadsLike(road) :
                RiskLeq(riskCalls[i].risk, compute_road_risk(r, riskCalls[i].rain_mm).risk)

\* the factor nd * sd of the denominator MAX_RAIN * 100 * nd * sd of a risk
RiskScale(risk) == risk.den \div (MAX_RAIN * 100)

\* C28: the risk lies between 0.55 * rain_norm and rain_norm, so every road
\* is 'low' when rain_mm <= 10, no road is 'very high' unless rain_mm > 35,
\* and every road is at least 'high' when rain_mm >= 50.
C28_RiskWithinRainBand ==
    \A i \in DOMAIN riskCalls :
        LET c == riskCalls[i]
            rain_norm == normalize_rain(c.rain_mm)
        IN  /\ RAIN_WEIGHT * rain_norm.num * RiskScale(c.risk) <= c.risk.num
            /\ c.risk.num <= 100 * rain_norm.num * RiskScale(c.risk)
            /\ c.rain_mm <= 10 => c.level = "low"
            /\ c.level = "very high" => c.rain_mm > 35
            /\ c.rain_mm >= 50 => c.level \in {"high", "very high"}

\* a road whose average lies above its range, at 10 mm/hr and at 50 mm/hr
C28_Witness ==
    /\ Len(riskCalls) = 2
    /\ GetOrZero(road, "avg_elevation") > GetOrZero(road, "max_elev")
    /\ GetOrZero(road, "max_elev") > GetOrZero(road, "min_elev")
    /\ riskCalls[1].rain_mm = 10 /\ riskCalls[1].level = "low" /\ riskCalls[1].risk.num > 0
    /\ riskCalls[2].rain_mm = 50 /\ riskCalls[2].level = "high"

-----------------------------------------------------------------------------
(* Claims about the graph built from the backend, under SpecBuild.           *)

\* the segments seen between the two keys of pair
SegmentsBetween(pair) == {sg \in segments : sg.pair = pair}

\* C23: after build_graph_from_bbox has processed any sequence of features,
\* every pair of node keys joined by a segment has exactly one edge, whose
\* weight is the least length * (1 + risk * penalty) of the segments seen
\* between the pair and whose length and risk are those of a segment of that
\* weight; the graph holds no other edge.
C23_EdgeIsLightestSegment ==
    /\ DOMAIN G.edges = {sg.pair : sg \in segments}
    /\ \A pair \in DOMAIN G.edges :
           /\ \A sg \in SegmentsBetween(pair) : G.edges[pair].weight <= sg.weight
           /\ \E sg \in SegmentsBetween(pair) :
                  /\ sg.weight = G.edges[pair].weight
                  /\ sg.length = G.edges[pair].length
                  /\ sg.risk = G.edges[pair].risk

\* a pair that saw three segments of different weights, the first of them not
\* the lightest, so that the edge was updated
C23_Witness ==
    /\ featuresDone = 3
    /\ Cardinality(SegmentsBetween({<<0, 0>>, <<10, 0>>})) = 3
    /\ G.edges[{<<0, 0>>, <<10, 0>>}].risk = 0
    /\ G.nodes[1].lon = 102

\* the distance of the query of call c to the i-th node it scanned
QueryDist(c, i) == haversine_m(c.lon, c.lat, c.nodes[i].lon, c.nodes[i].lat)

\* C25: nearest_node_key returns a node at the least great-circle distance
\* from the query point together with that distance, the first such node in
\* the graph's node order, and (None, +infinity) on a graph without nodes.
C25_NearestFirst ==
    \A k \in DOMAIN nearestCalls :
        LET c == nearestCalls[k]
        IN  IF c.nodes = <<>> THEN c.best.inf
            ELSE /\ ~c.best.inf
                 /\ \E i \in DOMAIN c.nodes :
                        /\ c.nodes[i].key = c.best.node
                        /\ c.best.d = QueryDist(c, i)
                        /\ \A j \in DOMAIN c.nodes : QueryDist(c, j) >= c.best.d
                        /\ \A j \in 1..(i - 1) : QueryDist(c, j) > c.best.d

\* two nodes at the same least distance, the first of them returned
C25_Witness ==
    /\ Len(nearestCalls) = 1
    /\ Len(nearestCalls[1].nodes) >= 3
    /\ \E i, j \in DOMAIN nearestCalls[1].nodes :
           /\ i < j
           /\ QueryDist(nearestCalls[1], i) = QueryDist(nearestCalls[1], j)
           /\ QueryDist(nearestCalls[1], i) = nearestCalls[1].best.d
           /\ nearestCalls[1].nodes[i].key = nearestCalls[1].best.node

-----------------------------------------------------------------------------
(* Claims about the persisted risk file, under SpecFile.                     *)

\* the ids of the roads the file holds: none when it is missing
IdsInFile(file) == [i \in DOMAIN file.data |-> DictGet(file.data[i], "id", "None")]

\* C20: every call of compute_all_roads computes its result from the content
\* the file has at the time of the call: it returns records for exactly the
\* roads now in the file (none when the file holds an empty array or was
\* removed), never for roads loaded at an earlier time.
C20_FreshFromFile ==
    \A i \in DOMAIN allRoadsCalls :
        allRoadsCalls[i].file.state \in {"json", "missing"} =>
            [k \in DOMAIN allRoadsCalls[i].out |-> allRoadsCalls[i].out[k].id]
                = IdsInFile(allRoadsCalls[i].file)

\* the level the thresholds assign to a risk reported in hundredths
LevelOfReported(reported) == RiskLevel([num |-> reported, den |-> 100])

\* C27: in every record compute_all_roads returns, the level is the one the
\* thresholds (> 0.70, > 0.45, > 0.20) assign to the rounded risk the record
\* reports.
C27_LevelMatchesReportedRisk ==
    \A i \in DOMAIN allRoadsCalls :
        \A k \in DOMAIN allRoadsCalls[i].out :
            allRoadsCalls[i].out[k].level = LevelOfReported(allRoadsCalls[i].out[k].risk)

-----------------------------------------------------------------------------
(* Claims about the edge cost, under SpecCost.                               *)

\* the profile and the edge of the session are in the range the claims cover
ValidCostInputs ==
    /\ vehicle.base_speed_kmph > 0
    /\ \A c \in DOMAIN vehicle.road_multipliers : vehicle.road_multipliers[c] >= 0
    /\ vehicle.flood_speed_loss_per_mm >= 0
    /\ vehicle.flood_penalty_lambda >= 0
    /\ DictGet(edgeBase, "length", DEFAULT_LENGTH) >= 0

\* C8: for a valid edge and profile compute_edge_weight returns (the division
\* does not raise) a cost >= 0, the speed it divides by being at least 0.1 km/h,
\* also when the flood depth exceeds the profile's impassable depth.
C8_CostFiniteNonNegative ==
    \A i \in DOMAIN costCalls :
        LET c == costCalls[i]
        IN  (ValidCostInputs /\ c.flood_depth >= 0) =>
                /\ c.exc = ""
                /\ c.flood_speed >= SPEED_FLOOR
                /\ c.travel_time >= 0
                /\ c.edge_weight >= 0

\* a call on an edge flooded beyond the impassable depth, the speed on its floor
C8_Witness ==
    /\ Len(costCalls) >= 1
    /\ costCalls[Len(costCalls)].flood_depth > vehicle.impassable_flood_depth_mm
    /\ costCalls[Len(costCalls)].speed_loss > costCalls[Len(costCalls)].base_speed
    /\ costCalls[Len(costCalls)].flood_speed = SPEED_FLOOR
    /\ costCalls[Len(costCalls)].exc = ""
    /\ costCalls[Len(costCalls)].edge_weight > 0

\* C9: with the profile, the length and the road class held fixed, the cost is
\* non-decreasing in flood_depth.
C9_CostMonotoneInDepth ==
    \A i, j \in DOMAIN costCalls :
        costCalls[i].flood_depth <= costCalls[j].flood_depth =>
            costCalls[i].edge_weight <= costCalls[j].edge_weight

\* two calls on the same edge, the deeper one strictly costlier through the travel
\* time alone (no flood penalty)
C9_Witness ==
    /\ Len(costCalls) = 2
    /\ vehicle.flood_penalty_lambda = 0
    /\ costCalls[1].flood_depth < costCalls[2].flood_depth
    /\ costCalls[1].edge_weight < costCalls[2].edge_weight

\* the call C10 is about
IsScenarioCall(c) ==
    /\ vehicle.base_speed_kmph = 50
    /\ DictGet(vehicle.road_multipliers, "residential", DEFAULT_MULTIPLIER) = 65
    /\ vehicle.flood_speed_loss_per_mm = 1
    /\ vehicle.flood_penalty_lambda = 50
    /\ edgeBase = [length |-> 100, road_class |-> "residential"]
    /\ c.flood_depth = 200

\* C10: suv-like profile, length 100 m, residential, flood depth 0.2 m: effective
\* speed 32.5, speed loss 20, flood speed 12.5, travel time 28.8 s, exposure 20,
\* cost 1028.8 within 0.1.
C10_ConcreteScenario ==
    \A i \in DOMAIN costCalls :
        LET c == costCalls[i]
        IN  IsScenarioCall(c) =>
                /\ c.base_speed = 3250
                /\ c.speed_loss = 2000
                /\ c.flood_speed = 1250
                /\ c.travel_time = 28800
                /\ c.exposure = 20000
                /\ c.edge_weight >= 1028800 - 100
                /\ c.edge_weight <= 1028800 + 100

C10_Witness ==
    /\ vehicle = suv
    /\ Len(costCalls) >= 1
    /\ IsScenarioCall(costCalls[Len(costCalls)])


\* the profiles that differ from p in colour, name or impassable depth only
Lookalikes(p) ==
    {[p EXCEPT !.color = c, !.name = n, !.impassable_flood_depth_mm = d] :
        c \in {p.color, "#000000"}, n \in {p.name, "tank"},
        d \in {p.impassable_flood_depth_mm, 0, 5000}}

\* C26: the cost of compute_edge_weight does not depend on the profile's
\* colour, name or impassable flood depth: profiles that agree on base speed,
\* road multipliers, speed-loss rate and penalty coefficient get the same cost
\* for every edge, so an edge flooded beyond the impassable depth is priced
\* like any other and never excluded.
C26_CostIgnoresCosmetics ==
    \A i \in DOMAIN costCalls :
        \A p \in Lookalikes(vehicle) :
            LET again == EdgeWeightLocals(
                             DictSet(edgeBase, "flood_depth", costCalls[i].flood_depth), p)
            IN  /\ again.edge_weight = costCalls[i].edge_weight
                /\ again.exc = costCalls[i].exc

\* a call on an edge flooded beyond the impassable depth of the car
C26_Witness ==
    /\ Len(costCalls) >= 1
    /\ vehicle = car
    /\ costCalls[1].flood_depth > vehicle.impassable_flood_depth_mm
    /\ costCalls[1].exc = ""
    /\ costCalls[1].edge_weight > 0


-----------------------------------------------------------------------------
(* Claims about the Overpass proxy handlers, under SpecProxy.                *)

\* the mirror contacted k-th answered with status 200
Answered200(k) ==
    mirrorReplies[k] \in {"200 not json", "200 null", "200 list", "200 dict"}

\* the mirror contacted k-th answered with status 200 and a body that is JSON
AnsweredJson(k) == mirrorReplies[k] \in {"200 null", "200 list", "200 dict"}

\* the handler has answered after going through its mirror loop
AnsweredAfterLoop == handlerPc = "done" /\ Len(contacted) >= 1

Is502 == response.status = 502 /\ response.error = "overpass endpoints failed"

\* C30 as claimed: the mirrors are contacted in the listed order, none is
\* contacted after one answered with status 200, and the answer is 502
\* 'overpass endpoints failed' exactly when every mirror raised or answered
\* with a status other than 200.
C30_FirstOkStopsElse502 ==
    /\ contacted = SubSeq(MIRRORS, 1, Len(contacted))
    /\ \A k \in DOMAIN contacted : Answered200(k) => Len(contacted) = k
    /\ AnsweredAfterLoop =>
           (Is502 <=> \A m \in DOMAIN MIRRORS : mirrorReplies[m] \in {"raises", "status 504"})

\* C30: the mirrors are contacted in the listed order, none is contacted
\* after one answered with status 200 and a body that parses as JSON, and the
\* answer is 502 'overpass endpoints failed' exactly when no contacted mirror
\* answered with status 200 and a JSON body other than null.
C30_FirstJsonStopsElse502 ==
    /\ contacted = SubSeq(MIRRORS, 1, Len(contacted))
    /\ \A k \in DOMAIN contacted : AnsweredJson(k) => Len(contacted) = k
    /\ AnsweredAfterLoop =>
           (Is502 <=> \A k \in DOMAIN contacted :
                          mirrorReplies[k] \notin {"200 list", "200 dict"})

\* the first mirror raised, the second answered 200 and the third was left alone
C30_Witness ==
    /\ handlerPc = "done"
    /\ handlerRequest.handler = "roads_risk"
    /\ mirrorReplies[1] = "raises" /\ mirrorReplies[2] = "200 dict"
    /\ mirrorReplies[3] = "status 504"
    /\ Len(contacted) = 2
    /\ response.status = 200

====
